---- MODULE Spec2Model ----
(***************************************************************************)
(* Model of XBRLTaxonomyParser (src/src/app/backend/sec.py).               *)
(*                                                                         *)
(* Python strings are TLA+ strings; a Python dict is an ordered dictionary *)
(* (a sequence of [k, v] entries with distinct keys, in insertion order);  *)
(* a Python list is a sequence.  An XML document is a record holding the   *)
(* node lists the parser asks ElementTree for (findall), in document       *)
(* order, or the value Malformed when ET.fromstring raises ParseError.     *)
(***************************************************************************)
EXTENDS Integers, Sequences, FiniteSets, TLC

VARIABLES
    elements,                    \* self.elements: name -> elem_info
    labels,                      \* self.labels: label id -> label record
    references,                  \* self.references: reference id -> ref_info
    presentation_relationships,  \* self.presentation_relationships
    calculation_relationships,   \* self.calculation_relationships
    raised,                      \* an exception left the last operation
    last,                        \* the last operation and what it logged
    out,                         \* the value returned by the last operation
    pc,                          \* parse_taxonomy: the step it is at
    idx,                         \* parse_taxonomy: candidate index in the step
    fetched,                     \* parse_taxonomy: result of the last download
    gaap_elements,               \* table gaap_elements: element_name -> row
    statements                   \* table statements: its rows, oldest first

vars == <<elements, labels, references, presentation_relationships,
          calculation_relationships, raised, last, out, pc, idx, fetched,
          gaap_elements, statements>>

parser == <<elements, labels, references, presentation_relationships,
            calculation_relationships>>

taxonomy == <<pc, idx, fetched>>

database == <<gaap_elements, statements>>

----------------------------------------------------------------------------
(* Python values *)

None == "<None>"

\* dict: ordered dictionary helpers
EmptyDict == << >>

KeySet(d) == {d[i].k : i \in DOMAIN d}

Has(d, key) == \E i \in DOMAIN d : d[i].k = key

Get(d, key) == d[CHOOSE i \in DOMAIN d : d[i].k = key].v

Put(d, key, val) ==
    IF Has(d, key)
    THEN [i \in DOMAIN d |-> IF d[i].k = key THEN [k |-> key, v |-> val] ELSE d[i]]
    ELSE Append(d, [k |-> key, v |-> val])

Values(d) == [i \in DOMAIN d |-> d[i].v]

\* list: x in list
InList(x, list) == \E i \in DOMAIN list : list[i] = x

\* str: x in s (substring test)
Contains(x, s) ==
    \E i \in 1..(Len(s) - Len(x) + 1) : SubSeq(s, i, i + Len(x) - 1) = x

\* str.split('#')[-1]: the text after the last '#'
RECURSIVE LastFragmentFrom(_, _)
LastFragmentFrom(href, i) ==
    IF i = 0 THEN href
    ELSE IF SubSeq(href, i, i) = "#" THEN SubSeq(href, i + 1, Len(href))
    ELSE LastFragmentFrom(href, i - 1)

LastFragment(href) == LastFragmentFrom(href, Len(href))

LowerChar(c) ==
    CASE c = "A" -> "a" []
         c = "B" -> "b" []
         c = "C" -> "c" []
         c = "D" -> "d" []
         c = "E" -> "e" []
         c = "F" -> "f" []
         c = "G" -> "g" []
         c = "H" -> "h" []
         c = "I" -> "i" []
         c = "J" -> "j" []
         c = "K" -> "k" []
         c = "L" -> "l" []
         c = "M" -> "m" []
         c = "N" -> "n" []
         c = "O" -> "o" []
         c = "P" -> "p" []
         c = "Q" -> "q" []
         c = "R" -> "r" []
         c = "S" -> "s" []
         c = "T" -> "t" []
         c = "U" -> "u" []
         c = "V" -> "v" []
         c = "W" -> "w" []
         c = "X" -> "x" []
         c = "Y" -> "y" []
         c = "Z" -> "z" []
         OTHER -> c

RECURSIVE LowerFrom(_, _)
LowerFrom(s, i) ==
    IF i > Len(s) THEN ""
    ELSE LowerChar(SubSeq(s, i, i)) \o LowerFrom(s, i + 1)

\* str.lower()
Lower(s) == LowerFrom(s, 1)

Digits == "0123456789"

IsDigit(c) == \E i \in 1..10 : SubSeq(Digits, i, i) = c

DigitVal(c) == (CHOOSE i \in 1..10 : SubSeq(Digits, i, i) = c) - 1

AllDigits(s) == Len(s) > 0 /\ \A i \in 1..Len(s) : IsDigit(SubSeq(s, i, i))

RECURSIVE DigitsVal(_)
DigitsVal(s) ==
    IF Len(s) = 0 THEN 0
    ELSE 10 * DigitsVal(SubSeq(s, 1, Len(s) - 1)) + DigitVal(SubSeq(s, Len(s), Len(s)))

\* float(s) for the decimal literals [-]digits[.d]; the value is kept in
\* tenths.  Any other text raises ValueError (ok = FALSE).
UnsignedFloat(s) ==
    IF AllDigits(s) THEN [ok |-> TRUE, val |-> 10 * DigitsVal(s)]
    ELSE IF /\ Len(s) >= 3
            /\ SubSeq(s, Len(s) - 1, Len(s) - 1) = "."
            /\ AllDigits(SubSeq(s, 1, Len(s) - 2))
            /\ IsDigit(SubSeq(s, Len(s), Len(s)))
    THEN [ok |-> TRUE,
          val |-> 10 * DigitsVal(SubSeq(s, 1, Len(s) - 2))
                  + DigitVal(SubSeq(s, Len(s), Len(s)))]
    ELSE [ok |-> FALSE, val |-> 0]

Float(s) ==
    IF Len(s) > 0 /\ SubSeq(s, 1, 1) = "-"
    THEN LET u == UnsignedFloat(SubSeq(s, 2, Len(s)))
         IN [ok |-> u.ok, val |-> 0 - u.val]
    ELSE UnsignedFloat(s)

----------------------------------------------------------------------------
(* Documents *)

\* what download_file hands on: a document, bytes that are not XML, the empty
\* bytes b"", or None
Malformed == [kind |-> "malformed"]
EmptyBytes == [kind |-> "empty"]
NoContent == [kind |-> "None"]

\* ET.fromstring(content) raises ParseError
NotXml(content) == content.kind # "xml"

\* element.get(attribute, default) for an attribute that may be absent
Attr(value, default) == IF value = None THEN default ELSE value

\* exceptions the parser code can raise
NoExc == "<none>"
ParseError == "ParseError"
ValueError == "ValueError"
ConnectionError == "ConnectionError"
Timeout == "Timeout"
HTTPError == "HTTPError"

Excs == {ParseError, ValueError, ConnectionError, Timeout, HTTPError}

\* variant: `except (ParseError, ValueError)`, the request errors get through
IsParsingError(e) == e \in {ParseError, ValueError}

\* `except Exception`: every exception above is an Exception
IsException(e) == e \in Excs

----------------------------------------------------------------------------
(* parse_schema_file *)

elem_info(name, type) ==
    [name |-> name,
     data_type |-> type,
     labels |-> EmptyDict,
     references |-> << >>,
     parent_elements |-> << >>,
     child_elements |-> << >>,
     calculation_children |-> << >>,
     financial_statement |-> None]

RECURSIVE SchemaElements(_, _, _)
SchemaElements(elems, decls, i) ==
    IF i > Len(decls) THEN elems
    ELSE LET name == decls[i].name
         IN SchemaElements(
                IF name # "" THEN Put(elems, name, elem_info(name, decls[i].type))
                ELSE elems,
                decls, i + 1)

\* a schema parse that starts by emptying the element map
schema_body_clears(elems, content) ==
    IF NotXml(content) THEN [elements |-> EmptyDict, exc |-> ParseError]
    ELSE [elements |-> SchemaElements(elems, content.decls, 1), exc |-> NoExc]

\* the try body; exc is the exception that ends it
schema_body(elems, content) ==
    IF NotXml(content) THEN [elements |-> elems, exc |-> ParseError]
    ELSE [elements |-> SchemaElements(elems, content.decls, 1), exc |-> NoExc]

parse_schema_file(elems, content) ==
    LET r == schema_body(elems, content)
    IN [elements |-> r.elements,
        error |-> r.exc,
        raised |-> r.exc # NoExc /\ ~IsException(r.exc)]

----------------------------------------------------------------------------
(* parse_presentation_linkbase *)

RECURSIVE LocMap(_, _, _)
LocMap(map, locs, i) ==
    IF i > Len(locs) THEN map
    ELSE LET label == Attr(locs[i].label, "")
             href == Attr(locs[i].href, "")
         IN LocMap(
                IF label # "" /\ href # "" /\ Contains("#", href)
                THEN Put(map, label, LastFragment(href))
                ELSE map,
                locs, i + 1)

href_to_element(content) == LocMap(EmptyDict, content.locs, 1)

DictAppend(d, key, x) ==
    Put(d, key, Append(IF Has(d, key) THEN Get(d, key) ELSE << >>, x))

\* variant without `if child_element not in ...`
AppendAlways(list, x) == Append(list, x)

AppendIfAbsent(list, x) == IF InList(x, list) THEN list ELSE Append(list, x)

\* variant: a child that is not a known element is not appended
AddChildIfKnown(elems, parent_element, child_element) ==
    IF Has(elems, parent_element) /\ Has(elems, child_element)
    THEN LET e == Get(elems, parent_element)
         IN Put(elems, parent_element,
                [e EXCEPT !.child_elements = AppendIfAbsent(@, child_element)])
    ELSE elems

AddChild(elems, parent_element, child_element) ==
    IF Has(elems, parent_element)
    THEN LET e == Get(elems, parent_element)
         IN Put(elems, parent_element,
                [e EXCEPT !.child_elements = AppendIfAbsent(@, child_element)])
    ELSE elems

\* variant: the parent list of the parent is updated instead of the child's
AddParentToParent(elems, parent_element, child_element) ==
    IF Has(elems, parent_element)
    THEN LET e == Get(elems, parent_element)
         IN Put(elems, parent_element,
                [e EXCEPT !.parent_elements = AppendIfAbsent(@, parent_element)])
    ELSE elems

AddParent(elems, parent_element, child_element) ==
    IF Has(elems, child_element)
    THEN LET e == Get(elems, child_element)
         IN Put(elems, child_element,
                [e EXCEPT !.parent_elements = AppendIfAbsent(@, parent_element)])
    ELSE elems

\* one iteration of the presentationArc loop
\* variant: an arc to a child that has a parent already is skipped
presentation_arc_single_parent(st, h2e, arc) ==
    LET order == Float(Attr(arc.order, "0"))
    IN IF ~order.ok THEN [st EXCEPT !.exc = ValueError]
       ELSE IF /\ Has(h2e, Attr(arc.from, "")) /\ Has(h2e, Attr(arc.to, ""))
               /\ Has(st.elements, Get(h2e, arc.to))
               /\ Get(st.elements, Get(h2e, arc.to)).parent_elements # << >>
       THEN st
       ELSE IF Has(h2e, Attr(arc.from, "")) /\ Has(h2e, Attr(arc.to, ""))
       THEN LET parent_element == Get(h2e, arc.from)
                child_element == Get(h2e, arc.to)
            IN [elements |->
                    AddParent(AddChild(st.elements, parent_element, child_element),
                              parent_element, child_element),
                rels |-> DictAppend(st.rels, parent_element,
                                    [child |-> child_element,
                                     order |-> order.val,
                                     preferred_label |-> arc.preferredLabel]),
                exc |-> NoExc]
       ELSE st

presentation_arc(st, h2e, arc) ==
    LET order == Float(Attr(arc.order, "0"))
    IN IF ~order.ok THEN [st EXCEPT !.exc = ValueError]
       ELSE IF Has(h2e, Attr(arc.from, "")) /\ Has(h2e, Attr(arc.to, ""))
       THEN LET parent_element == Get(h2e, arc.from)
                child_element == Get(h2e, arc.to)
            IN [elements |->
                    AddParent(AddChild(st.elements, parent_element, child_element),
                              parent_element, child_element),
                rels |-> DictAppend(st.rels, parent_element,
                                    [child |-> child_element,
                                     order |-> order.val,
                                     preferred_label |-> arc.preferredLabel]),
                exc |-> NoExc]
       ELSE st

RECURSIVE PresentationArcs(_, _, _, _)
PresentationArcs(st, h2e, arcs, i) ==
    IF i > Len(arcs) \/ st.exc # NoExc THEN st
    ELSE PresentationArcs(presentation_arc(st, h2e, arcs[i]), h2e, arcs, i + 1)

presentation_body(elems, rels, content) ==
    IF NotXml(content)
    THEN [elements |-> elems, rels |-> rels, exc |-> ParseError]
    ELSE PresentationArcs([elements |-> elems, rels |-> rels, exc |-> NoExc],
                          href_to_element(content), content.arcs, 1)

parse_presentation_linkbase(elems, rels, content) ==
    LET r == presentation_body(elems, rels, content)
    IN [elements |-> r.elements,
        rels |-> r.rels,
        error |-> r.exc,
        raised |-> r.exc # NoExc /\ ~IsException(r.exc)]

----------------------------------------------------------------------------
(* parse_label_linkbase *)

IsSpace(c) == c \in {" ", "\t", "\n"}

RECURSIVE LStrip(_)
LStrip(s) ==
    IF Len(s) > 0 /\ IsSpace(SubSeq(s, 1, 1)) THEN LStrip(SubSeq(s, 2, Len(s)))
    ELSE s

RECURSIVE RStrip(_)
RStrip(s) ==
    IF Len(s) > 0 /\ IsSpace(SubSeq(s, Len(s), Len(s)))
    THEN RStrip(SubSeq(s, 1, Len(s) - 1))
    ELSE s

\* str.strip()
Strip(s) == RStrip(LStrip(s))

\* variant: totalLabel is tested before terseLabel
label_type_total_first(role) ==
    IF Contains("totalLabel", role) THEN "total"
    ELSE IF Contains("terseLabel", role) THEN "terse"
    ELSE IF Contains("verboseLabel", role) THEN "verbose"
    ELSE IF Contains("documentation", role) THEN "documentation"
    ELSE IF Contains("negatedLabel", role) THEN "negated"
    ELSE "standard"

\* the if/elif chain on the role
label_type(role) ==
    IF Contains("terseLabel", role) THEN "terse"
    ELSE IF Contains("verboseLabel", role) THEN "verbose"
    ELSE IF Contains("documentation", role) THEN "documentation"
    ELSE IF Contains("totalLabel", role) THEN "total"
    ELSE IF Contains("negatedLabel", role) THEN "negated"
    ELSE "standard"

\* first pass: collect the labels
RECURSIVE CollectLabels(_, _, _)
CollectLabels(labs, nodes, i) ==
    IF i > Len(nodes) THEN labs
    ELSE LET label == nodes[i]
             role == Attr(label.role, "")
             label_id == Attr(label.label, "")
         IN CollectLabels(
                IF label.text # None /\ label.text # "" /\ label_id # ""
                THEN Put(labs, label_id,
                         [text |-> Strip(label.text),
                          type |-> label_type(role),
                          lang |-> Attr(label.lang, "en-US"),
                          role |-> role])
                ELSE labs,
                nodes, i + 1)

\* variant without `if element_name in self.elements`
SetLabelCreates(elems, element_name, label_info) ==
    LET e == IF Has(elems, element_name) THEN Get(elems, element_name)
             ELSE elem_info(element_name, None)
    IN Put(elems, element_name,
           [e EXCEPT !.labels = Put(@, label_info.type, label_info.text)])

SetLabel(elems, element_name, label_info) ==
    IF Has(elems, element_name)
    THEN LET e == Get(elems, element_name)
         IN Put(elems, element_name,
                [e EXCEPT !.labels = Put(@, label_info.type, label_info.text)])
    ELSE elems

\* the inner loop over every loc of the document
RECURSIVE LabelLocs(_, _, _, _, _)

\* variant: the label goes to the element of every loc
LabelLocsAnyLoc(elems, locs, i, from_ref, label_info) ==
    IF i > Len(locs) THEN elems
    ELSE LET href == Attr(locs[i].href, "")
         IN LabelLocs(
                IF Contains("#", href)
                THEN SetLabel(elems, LastFragment(href), label_info)
                ELSE elems,
                locs, i + 1, from_ref, label_info)

LabelLocs(elems, locs, i, from_ref, label_info) ==
    IF i > Len(locs) THEN elems
    ELSE LET href == Attr(locs[i].href, "")
         IN LabelLocs(
                IF Attr(locs[i].label, "") = from_ref /\ Contains("#", href)
                THEN SetLabel(elems, LastFragment(href), label_info)
                ELSE elems,
                locs, i + 1, from_ref, label_info)

\* one iteration of the labelArc loop
label_arc(elems, labs, locs, arc) ==
    LET from_ref == Attr(arc.from, "")
        to_ref == Attr(arc.to, "")
    IN IF from_ref # "" /\ to_ref # "" /\ Has(labs, to_ref)
       THEN LabelLocs(elems, locs, 1, from_ref, Get(labs, to_ref))
       ELSE elems

RECURSIVE LabelArcs(_, _, _, _, _)
LabelArcs(elems, labs, locs, arcs, i) ==
    IF i > Len(arcs) THEN elems
    ELSE LabelArcs(label_arc(elems, labs, locs, arcs[i]), labs, locs, arcs, i + 1)

label_body(elems, labs, content) ==
    IF NotXml(content)
    THEN [elements |-> elems, labels |-> labs, exc |-> ParseError]
    ELSE LET collected == CollectLabels(labs, content.labels, 1)
         IN [elements |-> LabelArcs(elems, collected, content.locs,
                                    content.arcs, 1),
             labels |-> collected,
             exc |-> NoExc]

parse_label_linkbase(elems, labs, content) ==
    LET r == label_body(elems, labs, content)
    IN [elements |-> r.elements,
        labels |-> r.labels,
        error |-> r.exc,
        raised |-> r.exc # NoExc /\ ~IsException(r.exc)]

----------------------------------------------------------------------------
(* parse_reference_linkbase *)

RECURSIVE RefInfo(_, _, _)
RefInfo(ref_info, parts, i) ==
    IF i > Len(parts) THEN ref_info
    ELSE RefInfo(
             IF parts[i].text # None /\ parts[i].text # ""
             THEN Put(ref_info, parts[i].tag, Strip(parts[i].text))
             ELSE ref_info,
             parts, i + 1)

RECURSIVE CollectReferences(_, _, _)
CollectReferences(refs, nodes, i) ==
    IF i > Len(nodes) THEN refs
    ELSE LET ref_id == Attr(nodes[i].label, "")
         IN CollectReferences(
                IF ref_id # ""
                THEN Put(refs, ref_id, RefInfo(EmptyDict, nodes[i].parts, 1))
                ELSE refs,
                nodes, i + 1)

AddReference(elems, element_name, ref_info) ==
    IF Has(elems, element_name)
    THEN LET e == Get(elems, element_name)
         IN Put(elems, element_name,
                [e EXCEPT !.references = Append(@, ref_info)])
    ELSE elems

RECURSIVE ReferenceLocs(_, _, _, _, _)
ReferenceLocs(elems, locs, i, from_ref, ref_info) ==
    IF i > Len(locs) THEN elems
    ELSE LET href == Attr(locs[i].href, "")
         IN ReferenceLocs(
                IF Attr(locs[i].label, "") = from_ref /\ Contains("#", href)
                THEN AddReference(elems, LastFragment(href), ref_info)
                ELSE elems,
                locs, i + 1, from_ref, ref_info)

reference_arc(elems, refs, locs, arc) ==
    LET from_ref == Attr(arc.from, "")
        to_ref == Attr(arc.to, "")
    IN IF from_ref # "" /\ to_ref # "" /\ Has(refs, to_ref)
       THEN ReferenceLocs(elems, locs, 1, from_ref, Get(refs, to_ref))
       ELSE elems

RECURSIVE ReferenceArcs(_, _, _, _, _)
ReferenceArcs(elems, refs, locs, arcs, i) ==
    IF i > Len(arcs) THEN elems
    ELSE ReferenceArcs(reference_arc(elems, refs, locs, arcs[i]),
                       refs, locs, arcs, i + 1)

reference_body(elems, refs, content) ==
    IF NotXml(content)
    THEN [elements |-> elems, references |-> refs, exc |-> ParseError]
    ELSE LET collected == CollectReferences(refs, content.refs, 1)
         IN [elements |-> ReferenceArcs(elems, collected, content.locs,
                                        content.arcs, 1),
             references |-> collected,
             exc |-> NoExc]

parse_reference_linkbase(elems, refs, content) ==
    LET r == reference_body(elems, refs, content)
    IN [elements |-> r.elements,
        references |-> r.references,
        error |-> r.exc,
        raised |-> r.exc # NoExc /\ ~IsException(r.exc)]

----------------------------------------------------------------------------
(* parse_calculation_linkbase *)

AddCalculationChild(elems, parent_element, child_element, weight) ==
    IF Has(elems, parent_element)
    THEN LET e == Get(elems, parent_element)
         IN Put(elems, parent_element,
                [e EXCEPT !.calculation_children =
                     Append(@, [element |-> child_element, weight |-> weight])])
    ELSE elems

\* one iteration of the calculationArc loop
calculation_arc(st, h2e, arc) ==
    LET weight == Float(Attr(arc.weight, "1"))
        order == Float(Attr(arc.order, "0"))
    IN IF ~weight.ok \/ ~order.ok THEN [st EXCEPT !.exc = ValueError]
       ELSE IF Has(h2e, Attr(arc.from, "")) /\ Has(h2e, Attr(arc.to, ""))
       THEN LET parent_element == Get(h2e, arc.from)
                child_element == Get(h2e, arc.to)
            IN [elements |-> AddCalculationChild(st.elements, parent_element,
                                                 child_element, weight.val),
                rels |-> DictAppend(st.rels, parent_element,
                                    [child |-> child_element,
                                     weight |-> weight.val,
                                     order |-> order.val]),
                exc |-> NoExc]
       ELSE st

RECURSIVE CalculationArcs(_, _, _, _)
CalculationArcs(st, h2e, arcs, i) ==
    IF i > Len(arcs) \/ st.exc # NoExc THEN st
    ELSE CalculationArcs(calculation_arc(st, h2e, arcs[i]), h2e, arcs, i + 1)

calculation_body(elems, rels, content) ==
    IF NotXml(content)
    THEN [elements |-> elems, rels |-> rels, exc |-> ParseError]
    ELSE CalculationArcs([elements |-> elems, rels |-> rels, exc |-> NoExc],
                         href_to_element(content), content.arcs, 1)

parse_calculation_linkbase(elems, rels, content) ==
    LET r == calculation_body(elems, rels, content)
    IN [elements |-> r.elements,
        rels |-> r.rels,
        error |-> r.exc,
        raised |-> r.exc # NoExc /\ ~IsException(r.exc)]

----------------------------------------------------------------------------
(* calculate_element_level *)

SetMax(S) == CHOOSE m \in S : \A x \in S : m >= x

\* variant: the smaller of the two
MinInsteadOfMax(a, b) == IF a <= b THEN a ELSE b

Max(a, b) == IF a >= b THEN a ELSE b

RECURSIVE calculate_element_level(_, _, _)
RECURSIVE MaxParentLevel(_, _, _, _, _)

\* variant: a revisited element counts as one level
level_revisit_counts(elems, element_name, visited) ==
    IF element_name \in visited THEN 1
    ELSE IF ~Has(elems, element_name) THEN 0
    ELSE LET parents == Get(elems, element_name).parent_elements
         IN IF Len(parents) = 0 THEN 0
            ELSE MaxParentLevel(elems, parents, 1,
                                visited \cup {element_name}, 0) + 1

calculate_element_level(elems, element_name, visited) ==
    IF element_name \in visited THEN 0
    ELSE IF ~Has(elems, element_name) THEN 0
    ELSE LET parents == Get(elems, element_name).parent_elements
         IN IF Len(parents) = 0 THEN 0
            ELSE MaxParentLevel(elems, parents, 1,
                                visited \cup {element_name}, 0) + 1

\* the loop over parents; each call gets visited.copy()
MaxParentLevel(elems, parents, i, visited, max_parent_level) ==
    IF i > Len(parents) THEN max_parent_level
    ELSE MaxParentLevel(elems, parents, i + 1, visited,
             Max(max_parent_level,
                 calculate_element_level(elems, parents[i], visited)))

----------------------------------------------------------------------------
(* find_top_level_statement *)

Unknown == "Unknown"
FinancialPosition == "Statement of Financial Position"
Income == "Statement of Income"
CashFlows == "Statement of Cash Flows"
StockholdersEquity == "Statement of Stockholders Equity"

Statements == {FinancialPosition, Income, CashFlows, StockholdersEquity}

\* variant: "Cash" is a balance-sheet pattern
statement_patterns_with_cash ==
    << [k |-> FinancialPosition,
        v |-> <<"StatementOfFinancialPosition", "BalanceSheet", "Assets",
                "Liabilities", "StockholdersEquity", "Equity",
                "LiabilitiesAndEquity", "Cash">>],
       [k |-> Income,
        v |-> <<"StatementOfIncome", "IncomeStatement", "Revenues",
                "CostsAndExpenses", "OperatingIncome", "NetIncome",
                "EarningsPerShare", "ComprehensiveIncome">>],
       [k |-> CashFlows,
        v |-> <<"StatementOfCashFlows", "CashFlow", "NetCashProvidedByUsedIn",
                "OperatingActivities", "InvestingActivities",
                "FinancingActivities">>],
       [k |-> StockholdersEquity,
        v |-> <<"StatementOfStockholdersEquity", "StatementOfChangesInEquity",
                "StockholdersEquityChanges", "EquityAttributable">>] >>

statement_patterns ==
    << [k |-> FinancialPosition,
        v |-> <<"StatementOfFinancialPosition", "BalanceSheet", "Assets",
                "Liabilities", "StockholdersEquity", "Equity",
                "LiabilitiesAndEquity">>],
       [k |-> Income,
        v |-> <<"StatementOfIncome", "IncomeStatement", "Revenues",
                "CostsAndExpenses", "OperatingIncome", "NetIncome",
                "EarningsPerShare", "ComprehensiveIncome">>],
       [k |-> CashFlows,
        v |-> <<"StatementOfCashFlows", "CashFlow", "NetCashProvidedByUsedIn",
                "OperatingActivities", "InvestingActivities",
                "FinancingActivities">>],
       [k |-> StockholdersEquity,
        v |-> <<"StatementOfStockholdersEquity", "StatementOfChangesInEquity",
                "StockholdersEquityChanges", "EquityAttributable">>] >>

\* any(x in text for x in terms)
AnyIn(terms, text) == \E i \in DOMAIN terms : Contains(terms[i], text)

\* pattern.lower() of every pattern
lower_patterns ==
    [i \in DOMAIN statement_patterns |->
        [j \in DOMAIN statement_patterns[i].v |->
            Lower(statement_patterns[i].v[j])]]

\* pattern.lower() in element_name.lower(), for some pattern of the list
PatternMatches(i, name_lower) ==
    \E j \in DOMAIN lower_patterns[i] : Contains(lower_patterns[i][j], name_lower)

\* variant: the last statement that matches
LastPattern(name_lower) ==
    LET hits == {i \in DOMAIN statement_patterns : PatternMatches(i, name_lower)}
    IN IF hits = {} THEN Unknown
       ELSE statement_patterns[CHOOSE i \in hits : \A j \in hits : i >= j].k

\* the loop over statement_patterns.items(): the first statement that matches
FirstPattern(name_lower) ==
    LET hits == {i \in DOMAIN statement_patterns : PatternMatches(i, name_lower)}
    IN IF hits = {} THEN Unknown
       ELSE statement_patterns[CHOOSE i \in hits : \A j \in hits : i <= j].k

\* element_name.lower() is the same string for every pattern of the loop
name_match(element_name) ==
    CHOOSE statement \in {FirstPattern(name_lower) :
                              name_lower \in {Lower(element_name)}} : TRUE

\* the if/elif chain applied to one label text
LabelChain(label_lower) ==
    IF AnyIn(<<"cash flow", "operating activities", "investing activities",
               "financing activities">>, label_lower)
    THEN CashFlows
    ELSE IF AnyIn(<<"income", "revenue", "expense", "earnings", "profit",
                    "loss">>, label_lower)
    THEN Income
    ELSE IF AnyIn(<<"balance sheet", "financial position", "assets",
                    "liabilities", "equity">>, label_lower)
    THEN FinancialPosition
    ELSE IF AnyIn(<<"stockholders equity", "changes in equity">>, label_lower)
    THEN StockholdersEquity
    ELSE Unknown

\* label_text.lower() is computed once, before the chain
label_statement(label_text) ==
    IF label_text = "" THEN Unknown
    ELSE CHOOSE statement \in {LabelChain(label_lower) :
                                   label_lower \in {Lower(label_text)}} : TRUE

\* variant: the last label whose chain returns
label_match_last(label_texts) ==
    LET found == [i \in DOMAIN label_texts |-> label_statement(label_texts[i])]
        hits == {i \in DOMAIN found : found[i] # Unknown}
    IN IF hits = {} THEN Unknown
       ELSE found[CHOOSE i \in hits : \A j \in hits : i >= j]

\* the loop over labels.values(): the first label whose chain returns
label_match(label_texts) ==
    LET found == [i \in DOMAIN label_texts |-> label_statement(label_texts[i])]
        hits == {i \in DOMAIN found : found[i] # Unknown}
    IN IF hits = {} THEN Unknown
       ELSE found[CHOOSE i \in hits : \A j \in hits : i <= j]

RECURSIVE find_top_level_statement(_, _, _)
RECURSIVE ParentStatement(_, _, _, _)

\* variant without the loop over the parents
find_top_level_statement_no_parents(elems, element_name, visited) ==
    IF element_name \in visited THEN Unknown
    ELSE IF ~Has(elems, element_name) THEN Unknown
    ELSE LET by_name == name_match(element_name)
             e == Get(elems, element_name)
             by_label == label_match(Values(e.labels))
         IN IF by_name # Unknown THEN by_name ELSE by_label

find_top_level_statement(elems, element_name, visited) ==
    IF element_name \in visited THEN Unknown
    ELSE IF ~Has(elems, element_name) THEN Unknown
    ELSE LET by_name == name_match(element_name)
             e == Get(elems, element_name)
             by_label == label_match(Values(e.labels))
         IN IF by_name # Unknown THEN by_name
            ELSE IF by_label # Unknown THEN by_label
            ELSE ParentStatement(elems, e.parent_elements, 1,
                                 visited \cup {element_name})

\* variant: the statement already stored on the parent is used
ParentStatementStored(elems, parents, i, visited) ==
    IF i > Len(parents) THEN Unknown
    ELSE LET parent_statement ==
                 IF Has(elems, parents[i])
                    /\ Get(elems, parents[i]).financial_statement # None
                 THEN Get(elems, parents[i]).financial_statement
                 ELSE Unknown
         IN IF parent_statement # Unknown THEN parent_statement
            ELSE ParentStatement(elems, parents, i + 1, visited)

\* the loop over parents: the first parent whose statement is not Unknown
ParentStatement(elems, parents, i, visited) ==
    IF i > Len(parents) THEN Unknown
    ELSE LET parent_statement ==
                 find_top_level_statement(elems, parents[i], visited)
         IN IF parent_statement # Unknown THEN parent_statement
            ELSE ParentStatement(elems, parents, i + 1, visited)

----------------------------------------------------------------------------
(* The call stack of the two recursions: how many calls are nested *)

RECURSIVE level_stack(_, _, _)
level_stack(elems, element_name, visited) ==
    IF element_name \in visited \/ ~Has(elems, element_name) THEN 1
    ELSE LET parents == Get(elems, element_name).parent_elements
         IN IF Len(parents) = 0 THEN 1
            ELSE 1 + SetMax({level_stack(elems, parents[i],
                                         visited \cup {element_name}) :
                                 i \in DOMAIN parents})

RECURSIVE statement_stack(_, _, _)
statement_stack(elems, element_name, visited) ==
    IF element_name \in visited \/ ~Has(elems, element_name) THEN 1
    ELSE LET e == Get(elems, element_name)
             parents == e.parent_elements
             inner == visited \cup {element_name}
             \* the loop stops after the first parent that is not Unknown
             called == {i \in DOMAIN parents :
                            \A j \in 1..(i - 1) :
                                find_top_level_statement(elems, parents[j],
                                                         inner) = Unknown}
         IN IF \/ name_match(element_name) # Unknown
               \/ label_match(Values(e.labels)) # Unknown
               \/ Len(parents) = 0
            THEN 1
            ELSE 1 + SetMax({statement_stack(elems, parents[i], inner) :
                                 i \in called})

----------------------------------------------------------------------------
(* classify_all_elements *)

RECURSIVE ClassifyFrom(_, _)
ClassifyFrom(elems, i) ==
    IF i > Len(elems) THEN elems
    ELSE CHOOSE classified \in
             {ClassifyFrom(
                  Put(elems, elems[i].k,
                      [elems[i].v EXCEPT !.financial_statement = statement]),
                  i + 1) :
                  statement \in {find_top_level_statement(elems, elems[i].k, {})}} :
             TRUE

\* variant: the classification is skipped
classify_skipped(elems) == elems

classify_all_elements(elems) == ClassifyFrom(elems, 1)

----------------------------------------------------------------------------
(* build_hierarchy_dataframe *)

\* dict.get(key, default)
GetOr(d, key, default) == IF Has(d, key) THEN Get(d, key) ELSE default

standard_label(elems, name) ==
    IF Has(elems, name) THEN GetOr(Get(elems, name).labels, "standard", "")
    ELSE ""

hierarchy_row(elems, parent, child_info) ==
    [parent_element |-> parent,
     child_element |-> child_info.child,
     order |-> child_info.order,
     preferred_label |-> child_info.preferred_label,
     parent_label |-> standard_label(elems, parent),
     child_label |-> standard_label(elems, child_info.child),
     level |-> calculate_element_level(elems, child_info.child, {})]

RECURSIVE HierarchyRows(_, _, _)
HierarchyRows(elems, rels, i) ==
    IF i > Len(rels) THEN << >>
    ELSE [j \in DOMAIN rels[i].v |-> hierarchy_row(elems, rels[i].k, rels[i].v[j])]
         \o HierarchyRows(elems, rels, i + 1)

build_hierarchy_dataframe(elems, rels) == HierarchyRows(elems, rels, 1)

----------------------------------------------------------------------------
(* to_comprehensive_dataframe *)

\* sep.join(list)
RECURSIVE Join(_, _)
Join(sep, list) ==
    IF Len(list) = 0 THEN ""
    ELSE IF Len(list) = 1 THEN list[1]
    ELSE list[1] \o sep \o Join(sep, Tail(list))

\* variant: a zero weight is given the minus sign
sign_strict(weight) == IF weight > 0 THEN "+" ELSE "-"

sign(weight) == IF weight >= 0 THEN "+" ELSE "-"

calc_formula(calculation_children) ==
    Join(" ", [i \in DOMAIN calculation_children |->
                   sign(calculation_children[i].weight) \o " "
                   \o calculation_children[i].element])

ref_str(ref) == Join("; ", [i \in DOMAIN ref |-> ref[i].k \o ": " \o ref[i].v])

ref_info(refs) == Join(" | ", [i \in DOMAIN refs |-> ref_str(refs[i])])

comprehensive_row(element_name, element_info) ==
    [element_name |-> element_name,
     data_type |-> element_info.data_type,
     standard_label |-> GetOr(element_info.labels, "standard", ""),
     terse_label |-> GetOr(element_info.labels, "terse", ""),
     verbose_label |-> GetOr(element_info.labels, "verbose", ""),
     documentation |-> GetOr(element_info.labels, "documentation", ""),
     total_label |-> GetOr(element_info.labels, "total", ""),
     parent_elements |-> Join("; ", element_info.parent_elements),
     child_elements |-> Join("; ", element_info.child_elements),
     has_children |-> Len(element_info.child_elements) > 0,
     is_root |-> Len(element_info.parent_elements) = 0,
     financial_statement |->
         IF element_info.financial_statement = None THEN Unknown
         ELSE element_info.financial_statement,
     calculation_formula |-> calc_formula(element_info.calculation_children),
     calculation_children_count |-> Len(element_info.calculation_children),
     authoritative_references |-> ref_info(element_info.references),
     reference_count |-> Len(element_info.references)]

to_comprehensive_dataframe(elems) ==
    [i \in DOMAIN elems |-> comprehensive_row(elems[i].k, elems[i].v)]

----------------------------------------------------------------------------
(* download_file *)

\* what requests.get(url, timeout=30) does: it raises exc, or returns a
\* response with a status code and a body
Response(exc, status, content) ==
    [exc |-> exc, status |-> status, content |-> content]

\* the try body: requests.get, raise_for_status, return response.content
download_body(response) ==
    IF response.exc # NoExc THEN [value |-> NoContent, exc |-> response.exc]
    ELSE IF response.status >= 400 THEN [value |-> NoContent, exc |-> HTTPError]
    ELSE [value |-> response.content, exc |-> NoExc]

download_file(response) ==
    LET r == download_body(response)
    IN [value |-> r.value,
        error |-> r.exc,
        raised |-> r.exc # NoExc /\ ~IsException(r.exc)]

\* `if content is not None:`
IsNotNone(content) == content.kind # "None"

\* `if content:` - None and b"" are false
Truthy(content) == content.kind \notin {"None", "empty"}

----------------------------------------------------------------------------
(* Inputs *)

MaxArcs == 2       \* presentation arcs in one document
MaxEdges == 3      \* hierarchy edges recorded by one parser
MaxLabelArcs == 2  \* label arcs in one document
MaxCalcArcs == 2   \* calculation arcs in one document
MaxCalcEdges == 3  \* calculation edges recorded by one parser
MaxKinds == 2      \* label kinds given to one element, one document each
MaxCycleEdges == 4 \* hierarchy edges of a parser given curated documents

SeqsUpTo(S, n) == UNION {[1..m -> S] : m \in 0..n}

Decl(name) == [name |-> name, type |-> "xbrli:monetaryItemType"]

Schema(decls) == [kind |-> "xml", decls |-> decls]

\* the second schema has an element without a name and declares A alone
SchemaDocs ==
    {Malformed,
     Schema(<<Decl("A"), Decl("B"), Decl("C")>>),
     Schema(<<Decl(""), [name |-> "A", type |-> "xbrli:stringItemType"]>>)}

Loc(label, href) == [label |-> label, href |-> href]

Locs == <<Loc("l1", "s.xsd#A"), Loc("l2", "s.xsd#B"), Loc("l3", "s.xsd#C")>>

\* an href with two '#', an href with none
FragmentLocs ==
    <<Loc("l1", "s.xsd#A"), Loc("l2", "http://x/s.xsd#x#B"), Loc("l3", "s.xsd")>>

\* a label used twice, an empty label
RepeatedLocs ==
    <<Loc("l1", "s.xsd#C"), Loc("l1", "s.xsd#A"), Loc("", "s.xsd#B"),
      Loc("l3", "s.xsd#A")>>

Arc(from, to, order) ==
    [from |-> from, to |-> to, order |-> order, preferredLabel |-> ""]

PresArcs ==
    {Arc("l1", "l2", "1"), Arc("l1", "l3", "2"), Arc("l2", "l3", None),
     Arc("l3", "l1", "1")}

PresDoc(locs, arcs) == [kind |-> "xml", locs |-> locs, arcs |-> arcs]

PresDocsOver(locs) ==
    {Malformed} \cup {PresDoc(locs, as) : as \in SeqsUpTo(PresArcs, MaxArcs)}

\* a self-loop, orders that are not numbers, locs that do not resolve
OddPresDocs ==
    {PresDoc(Locs, <<Arc("l1", "l1", None)>>),
     PresDoc(Locs, <<Arc("l1", "l2", "x")>>),
     PresDoc(Locs, <<Arc("l1", "l2", "1"), Arc("l1", "l3", "x")>>),
     PresDoc(FragmentLocs, <<Arc("l1", "l2", "1"), Arc("l1", "l3", "2")>>),
     PresDoc(RepeatedLocs, <<Arc("l1", "l2", "1"), Arc("l3", "l1", "1")>>)}

PresDocs == PresDocsOver(Locs) \cup OddPresDocs

LabelNode(id, role, text) ==
    [label |-> id, role |-> role, text |-> text, lang |-> None]

StandardRole == "http://www.xbrl.org/2003/role/label"
TerseRole == "http://www.xbrl.org/2003/role/terseLabel"
DocumentationRole == "http://www.xbrl.org/2003/role/documentation"

LabelNodeLists ==
    {<<LabelNode("lab1", StandardRole, "Goodwill"),
       LabelNode("lab2", DocumentationRole, "Other assets")>>,
     <<LabelNode("lab1", TerseRole, " Total revenue ")>>}

LabelArc(from, to) == [from |-> from, to |-> to]

\* l9 is the label of no loc
LabelArcSet ==
    {LabelArc("l1", "lab1"), LabelArc("l2", "lab2"), LabelArc("l9", "lab1")}

LabelLocList ==
    <<Loc("l1", "s.xsd#A"), Loc("l2", "s.xsd#B"), Loc("l2", "s.xsd#C")>>

LabelDoc(nodes, locs, arcs) ==
    [kind |-> "xml", labels |-> nodes, locs |-> locs, arcs |-> arcs]

\* a document without label nodes, a label node without role and text and
\* an arc to lab9, the label of no label node
OddLabelDocs ==
    {LabelDoc(<< >>, LabelLocList, <<LabelArc("l1", "lab1")>>),
     LabelDoc(<<LabelNode("lab2", None, None)>>, LabelLocList,
              <<LabelArc("l2", "lab2"), LabelArc("l1", "lab9")>>)}

LabelDocs ==
    {Malformed}
    \cup {LabelDoc(ns, LabelLocList, as) :
              ns \in LabelNodeLists, as \in SeqsUpTo(LabelArcSet, MaxLabelArcs)}
    \cup OddLabelDocs

CalcArc(from, to, weight, order) ==
    [from |-> from, to |-> to, weight |-> weight, order |-> order]

CalcArcs ==
    {CalcArc("l1", "l2", "1.0", "1"), CalcArc("l1", "l3", "-1.0", "2"),
     CalcArc("l1", "l3", "0", None), CalcArc("l2", "l3", None, "1")}

CalcLocs == <<Loc("l1", "s.xsd#A"), Loc("l2", "s.xsd#X"), Loc("l3", "s.xsd#Y")>>

CalcDoc(locs, arcs) == [kind |-> "xml", locs |-> locs, arcs |-> arcs]

\* a weight and an order that are not numbers
OddCalcDocs ==
    {CalcDoc(CalcLocs, <<CalcArc("l1", "l2", "minus", "1")>>),
     CalcDoc(CalcLocs, <<CalcArc("l1", "l2", "1.0", "1"),
                         CalcArc("l1", "l3", "-1.0", "x")>>)}

CalcDocs ==
    {Malformed}
    \cup {CalcDoc(CalcLocs, as) : as \in SeqsUpTo(CalcArcs, MaxCalcArcs)}
    \cup OddCalcDocs

\* documents of the classifier
CashName == "CashAndCashEquivalentsAtCarryingValue"

ClassifySchemaDocs ==
    {Schema(<<Decl(CashName)>>),
     Schema(<<Decl("Goodwill"), Decl("Assets"), Decl("Revenues")>>)}

ClassifyLocs ==
    <<Loc("l1", "s.xsd#Assets"), Loc("l2", "s.xsd#Revenues"),
      Loc("l3", "s.xsd#Goodwill")>>

ClassifyPresDocs == PresDocsOver(ClassifyLocs)

ClassifyLabelDocs ==
    {[kind |-> "xml",
      labels |-> <<node>>,
      locs |-> <<Loc("l1", "s.xsd#Goodwill")>>,
      arcs |-> <<LabelArc("l1", "lab1")>>] :
         node \in {LabelNode("lab1", StandardRole, "Goodwill"),
                   LabelNode("lab1", StandardRole, "Other assets"),
                   LabelNode("lab1", TerseRole, " Total revenue ")}}

\* documents served to parse_taxonomy
TaxSchemaDocs == {Schema(<<Decl("Goodwill"), Decl("Assets")>>)}

TaxLabelDocs ==
    {[kind |-> "xml",
      labels |-> <<LabelNode("lab1", StandardRole, "Goodwill")>>,
      locs |-> <<Loc("l1", "s.xsd#Goodwill")>>,
      arcs |-> <<LabelArc("l1", "lab1")>>]}

TaxReferenceDocs ==
    {[kind |-> "xml",
      refs |-> <<[label |-> "ref1",
                  parts |-> <<[tag |-> "Name", text |-> " ASC "],
                              [tag |-> "Topic", text |-> "350"]>>]>>,
      locs |-> <<Loc("l1", "s.xsd#Goodwill")>>,
      arcs |-> <<LabelArc("l1", "ref1")>>]}

TaxLocs == <<Loc("l1", "s.xsd#Assets"), Loc("l2", "s.xsd#Goodwill")>>

TaxPresDocs ==
    {[kind |-> "xml", locs |-> TaxLocs, arcs |-> <<Arc("l1", "l2", "1")>>],
     [kind |-> "xml", locs |-> TaxLocs, arcs |-> <<Arc("l1", "l2", "x")>>]}

TaxCalcDocs ==
    {[kind |-> "xml", locs |-> TaxLocs,
      arcs |-> <<CalcArc("l1", "l2", "1.0", "1")>>]}

\* what a request can do: fail to connect, time out, answer with an error
\* status, or answer 200 with empty bytes, bytes that are not XML, or a
\* document
Responses(docs) ==
    {Response(ConnectionError, 0, NoContent),
     Response(Timeout, 0, NoContent),
     Response(NoExc, 404, Malformed),
     Response(NoExc, 200, EmptyBytes),
     Response(NoExc, 200, Malformed)}
    \cup {Response(NoExc, 200, doc) : doc \in docs}

----------------------------------------------------------------------------
(* State machine *)

\* the operation that ran last, the exception it caught and logged, and, for
\* the label resolver, the document it was given; for a candidate file of
\* parse_taxonomy, the content handed to its parser (NoContent for the others)
Call(op, arg, error) == [op |-> op, arg |-> arg, error |-> error]

Init ==
    /\ elements = EmptyDict
    /\ labels = EmptyDict
    /\ references = EmptyDict
    /\ presentation_relationships = EmptyDict
    /\ calculation_relationships = EmptyDict
    /\ raised = FALSE
    /\ last = Call("__init__", NoContent, NoExc)
    /\ out = None
    /\ pc = "idle"
    /\ idx = 0
    /\ fetched = NoContent
    /\ gaap_elements = EmptyDict
    /\ statements = << >>

ParseSchema(content) ==
    LET r == parse_schema_file(elements, content)
    IN /\ elements' = r.elements
       /\ raised' = r.raised
       /\ last' = Call("parse_schema_file", NoContent, r.error)
       /\ out' = None
       /\ UNCHANGED <<labels, references, presentation_relationships,
                      calculation_relationships, taxonomy, database>>

ParseLabel(content) ==
    LET r == parse_label_linkbase(elements, labels, content)
    IN /\ elements' = r.elements
       /\ labels' = r.labels
       /\ raised' = r.raised
       /\ last' = Call("parse_label_linkbase", content, r.error)
       /\ out' = None
       /\ UNCHANGED <<references, presentation_relationships,
                      calculation_relationships, taxonomy, database>>

ParseReference(content) ==
    LET r == parse_reference_linkbase(elements, references, content)
    IN /\ elements' = r.elements
       /\ references' = r.references
       /\ raised' = r.raised
       /\ last' = Call("parse_reference_linkbase", NoContent, r.error)
       /\ out' = None
       /\ UNCHANGED <<labels, presentation_relationships,
                      calculation_relationships, taxonomy, database>>

RECURSIVE SumLen(_, _)
SumLen(d, i) == IF i > Len(d) THEN 0 ELSE Len(d[i].v) + SumLen(d, i + 1)

Edges(rels) == SumLen(rels, 1)

\* the edges that a document records depend on its locs and arcs alone; they
\* are counted once for the generated documents
EdgesOf ==
    [content \in PresDocs \cup ClassifyPresDocs |->
        Edges(parse_presentation_linkbase(EmptyDict, EmptyDict, content).rels)]

\* one call of parse_presentation_linkbase by a parser that records at most
\* max_edges edges
ParsePresentationUpTo(content, max_edges) ==
    /\ content \in DOMAIN EdgesOf
       => Edges(presentation_relationships) + EdgesOf[content] <= max_edges
    /\ \E r \in {parse_presentation_linkbase(elements, presentation_relationships,
                                          content)} :
       /\ Edges(r.rels) <= max_edges
       /\ elements' = r.elements
       /\ presentation_relationships' = r.rels
       /\ raised' = r.raised
       /\ last' = Call("parse_presentation_linkbase", NoContent, r.error)
       /\ out' = None
       /\ UNCHANGED <<labels, references, calculation_relationships, taxonomy,
                      database>>

ParsePresentation(content) == ParsePresentationUpTo(content, MaxEdges)

ParseCalculation(content) ==
    LET r == parse_calculation_linkbase(elements, calculation_relationships,
                                        content)
    IN /\ Edges(r.rels) <= MaxCalcEdges
       /\ elements' = r.elements
       /\ calculation_relationships' = r.rels
       /\ raised' = r.raised
       /\ last' = Call("parse_calculation_linkbase", NoContent, r.error)
       /\ out' = None
       /\ UNCHANGED <<labels, references, presentation_relationships, taxonomy,
                      database>>

\* variant: the first child is looked up with presentation_relationships[child],
\* which gives a defaultdict the key
BuildHierarchyIndexing ==
    /\ out' = build_hierarchy_dataframe(elements, presentation_relationships)
    /\ raised' = FALSE
    /\ last' = Call("build_hierarchy_dataframe", NoContent, NoExc)
    /\ presentation_relationships' =
           IF presentation_relationships = EmptyDict
              \/ Has(presentation_relationships,
                     presentation_relationships[1].v[1].child)
           THEN presentation_relationships
           ELSE Put(presentation_relationships,
                    presentation_relationships[1].v[1].child, << >>)
    /\ UNCHANGED <<elements, labels, references, calculation_relationships,
                   taxonomy, database>>

BuildHierarchy ==
    /\ out' = build_hierarchy_dataframe(elements, presentation_relationships)
    /\ raised' = FALSE
    /\ last' = Call("build_hierarchy_dataframe", NoContent, NoExc)
    /\ UNCHANGED <<parser, taxonomy, database>>

ToDataframe ==
    /\ out' = to_comprehensive_dataframe(elements)
    /\ raised' = FALSE
    /\ last' = Call("to_comprehensive_dataframe", NoContent, NoExc)
    /\ UNCHANGED <<parser, taxonomy, database>>

ClassifyAll ==
    /\ elements' = classify_all_elements(elements)
    /\ raised' = FALSE
    /\ last' = Call("classify_all_elements", NoContent, NoExc)
    /\ out' = None
    /\ UNCHANGED <<labels, references, presentation_relationships,
                   calculation_relationships, taxonomy, database>>

\* a parser is given its schema first
FirstCall == last.op = "__init__"

\* the hierarchy builder: a schema, then presentation documents
NextPres ==
    \/ \E content \in SchemaDocs : FirstCall /\ ParseSchema(content)
    \/ \E content \in PresDocs : ParsePresentation(content)
    \/ BuildHierarchy

SpecPres == Init /\ [][NextPres]_vars

\* the label resolver: a schema, then label documents
NextLabel ==
    \/ \E content \in SchemaDocs : FirstCall /\ ParseSchema(content)
    \/ \E content \in LabelDocs : ParseLabel(content)
    \/ ToDataframe

SpecLabel == Init /\ [][NextLabel]_vars

\* the calculation builder: a schema, then calculation documents
NextCalc ==
    \/ \E content \in SchemaDocs : FirstCall /\ ParseSchema(content)
    \/ \E content \in CalcDocs : ParseCalculation(content)
    \/ ToDataframe

SpecCalc == Init /\ [][NextCalc]_vars

\* the classifier, called as parse_taxonomy calls it: after the schema, the
\* labels and the hierarchy; the element table is exported at the end
Building == last.op \in {"parse_schema_file", "parse_label_linkbase",
                         "parse_presentation_linkbase"}

NextClassify ==
    \/ \E content \in ClassifySchemaDocs : FirstCall /\ ParseSchema(content)
    \/ \E content \in ClassifyLabelDocs :
           /\ last.op \in {"parse_schema_file", "parse_label_linkbase"}
           /\ ParseLabel(content)
    \/ \E content \in ClassifyPresDocs : Building /\ ParsePresentation(content)
    \/ (Building \/ last.op = "classify_all_elements") /\ ClassifyAll
    \/ last.op = "classify_all_elements" /\ ToDataframe

SpecClassify == Init /\ [][NextClassify]_vars

\* documents of a parser driven method by method
ParserLabelDocs ==
    {Malformed,
     LabelDoc(<<LabelNode("lab1", StandardRole, "Goodwill")>>, LabelLocList,
              <<LabelArc("l1", "lab1")>>)}

ParserReferenceDocs ==
    {Malformed,
     [kind |-> "xml",
      refs |-> <<[label |-> "ref1",
                  parts |-> <<[tag |-> "Name", text |-> " ASC "]>>]>>,
      locs |-> Locs,
      arcs |-> <<LabelArc("l1", "ref1")>>]}

\* the second arc of each document stops the parse
ParserPresDocs ==
    {Malformed,
     PresDoc(Locs, <<Arc("l1", "l2", "1"), Arc("l1", "l3", "x")>>)}

ParserCalcDocs ==
    {Malformed,
     CalcDoc(Locs, <<CalcArc("l1", "l2", "1.0", "1"),
                     CalcArc("l1", "l3", "x", "2")>>)}

RECURSIVE SumReferences(_, _)
SumReferences(elems, i) ==
    IF i > Len(elems) THEN 0
    ELSE Len(elems[i].v.references) + SumReferences(elems, i + 1)

\* what the parser has recorded so far: the edges of both relationship maps
\* and the references attached to elements
RecordedSoFar ==
    Edges(presentation_relationships) + Edges(calculation_relationships)
        + SumReferences(elements, 1)

\* the public methods of one parser in any order, the schema parsed again
\* included; the amount recorded is capped at MaxEdges
Next ==
    \/ \E content \in SchemaDocs : ParseSchema(content)
    \/ \E content \in ParserLabelDocs : ParseLabel(content)
    \/ \E content \in ParserReferenceDocs :
           RecordedSoFar < MaxEdges /\ ParseReference(content)
    \/ \E content \in ParserPresDocs :
           RecordedSoFar < MaxEdges /\ ParsePresentation(content)
    \/ \E content \in ParserCalcDocs :
           RecordedSoFar < MaxEdges /\ ParseCalculation(content)
    \/ ClassifyAll
    \/ BuildHierarchy
    \/ ToDataframe

Spec == Init /\ [][Next]_vars

\* label documents with one label node: its role, its text, the href of the
\* loc its arc starts from
KindRoles ==
    {None,
     StandardRole,
     TerseRole,
     DocumentationRole,
     "http://www.xbrl.org/2003/role/verboseLabel",
     "http://www.xbrl.org/2003/role/totalLabel",
     "http://www.xbrl.org/2009/role/negatedLabel",
     "http://www.xbrl.org/2009/role/negatedTotalLabel",
     "http://x/role/totalLabel-terseLabel",
     "http://x/role/negatedLabel-documentation"}

NodeDoc(role, text, href) ==
    LabelDoc(<<LabelNode("lab1", role, text)>>, <<Loc("l1", href)>>,
             <<LabelArc("l1", "lab1")>>)

\* the last three: a text of blanks, an empty text, an href with two '#'
NodeDocs ==
    {NodeDoc(role, "Goodwill", "s.xsd#A") : role \in KindRoles}
    \cup {NodeDoc(StandardRole, "  ", "s.xsd#A"),
          NodeDoc(TerseRole, "", "s.xsd#A"),
          NodeDoc(TerseRole, "Goodwill", "s.xsd#x#A")}

FewKinds == \A i \in DOMAIN elements : Len(elements[i].v.labels) < MaxKinds

\* the label resolver, one label node at a time
NextKinds ==
    \/ \E content \in SchemaDocs : FirstCall /\ ParseSchema(content)
    \/ \E content \in NodeDocs : FewKinds /\ ParseLabel(content)
    \/ ToDataframe

SpecKinds == Init /\ [][NextKinds]_vars

\* the classifier on curated documents: names with keywords of several
\* statements, labels with terms of several categories, a parent cycle
EquityNames == statement_patterns[4].v

StatementSchemaDocs ==
    {Schema(<<Decl("Goodwill"), Decl("Other"), Decl("Assets"),
              Decl("Revenues")>>),
     Schema(<<Decl("CashFlowNetIncome"), Decl("Goodwill"), Decl("Assets")>>),
     Schema([i \in 1..Len(EquityNames) + 4 |->
                IF i <= Len(EquityNames) THEN Decl(EquityNames[i])
                ELSE Decl(<<"Goodwill", "Assets", "Revenues",
                            "CashFlow">>[i - Len(EquityNames)])])}

StatementLocs ==
    <<Loc("g", "s.xsd#Goodwill"), Loc("o", "s.xsd#Other"),
      Loc("a", "s.xsd#Assets"), Loc("r", "s.xsd#Revenues"),
      Loc("n", "s.xsd#CashFlowNetIncome")>>

StatementLabelDocs ==
    {LabelDoc(<<node>>, StatementLocs, <<LabelArc("g", "lab1")>>) :
        node \in {LabelNode("lab1", StandardRole, "Goodwill"),
                  LabelNode("lab1", StandardRole, "Changes in equity"),
                  LabelNode("lab1", StandardRole, "Cash flow from loss"),
                  LabelNode("lab1", TerseRole, "Net loss")}}
    \cup {LabelDoc(<<LabelNode("lab1", StandardRole, "Total assets")>>,
                   StatementLocs, <<LabelArc("n", "lab1")>>)}

\* the first document closes the cycle Goodwill, Other
StatementPresDocs ==
    {PresDoc(StatementLocs, arcs) :
        arcs \in {<<Arc("o", "g", "1"), Arc("a", "g", "2"), Arc("g", "o", "1"),
                    Arc("r", "o", "2")>>,
                  <<Arc("o", "g", "1"), Arc("g", "o", "1"), Arc("a", "o", "2")>>,
                  <<Arc("a", "g", "1"), Arc("r", "g", "2")>>,
                  <<Arc("r", "g", "1"), Arc("g", "o", "1")>>,
                  <<Arc("a", "n", "1"), Arc("a", "g", "1")>>}}

NextStatements ==
    \/ \E content \in StatementSchemaDocs : FirstCall /\ ParseSchema(content)
    \/ \E content \in StatementLabelDocs :
           /\ last.op \in {"parse_schema_file", "parse_label_linkbase"}
           /\ FewKinds
           /\ ParseLabel(content)
    \/ \E content \in StatementPresDocs :
           Building /\ ParsePresentationUpTo(content, MaxCycleEdges)
    \/ (Building \/ last.op = "classify_all_elements") /\ ClassifyAll
    \/ last.op = "classify_all_elements" /\ ToDataframe

SpecStatements == Init /\ [][NextStatements]_vars

----------------------------------------------------------------------------
(* parse_taxonomy *)

NumLabelFiles == 4
NumRefFiles == 4
NumPresFiles == 6
NumCalcFiles == 6

ParserState ==
    [elements |-> elements, labels |-> labels, references |-> references,
     presentation_relationships |-> presentation_relationships,
     calculation_relationships |-> calculation_relationships]

\* one candidate file: d is what download_file returned and r, read only if
\* there is content, the parser state and the outcome of the parse; parsed is
\* the content handed to the parser, NoContent when no parser was called
Candidate(d, r) ==
    IF d.raised
    THEN [st |-> ParserState, fetched |-> NoContent, parsed |-> NoContent,
          error |-> d.error, raised |-> TRUE]
    ELSE IF Truthy(d.value)
    THEN [st |-> r.st, fetched |-> d.value, parsed |-> d.value,
          error |-> r.error, raised |-> r.raised]
    ELSE [st |-> ParserState, fetched |-> d.value, parsed |-> NoContent,
          error |-> d.error, raised |-> FALSE]

SchemaStep(st, content) ==
    LET r == parse_schema_file(st.elements, content)
    IN [st |-> [st EXCEPT !.elements = r.elements],
        error |-> r.error, raised |-> r.raised]

LabelStep(st, content) ==
    LET r == parse_label_linkbase(st.elements, st.labels, content)
    IN [st |-> [st EXCEPT !.elements = r.elements, !.labels = r.labels],
        error |-> r.error, raised |-> r.raised]

ReferenceStep(st, content) ==
    LET r == parse_reference_linkbase(st.elements, st.references, content)
    IN [st |-> [st EXCEPT !.elements = r.elements,
                          !.references = r.references],
        error |-> r.error, raised |-> r.raised]

PresentationStep(st, content) ==
    LET r == parse_presentation_linkbase(st.elements,
                                         st.presentation_relationships, content)
    IN [st |-> [st EXCEPT !.elements = r.elements,
                          !.presentation_relationships = r.rels],
        error |-> r.error, raised |-> r.raised]

CalculationStep(st, content) ==
    LET r == parse_calculation_linkbase(st.elements,
                                        st.calculation_relationships, content)
    IN [st |-> [st EXCEPT !.elements = r.elements,
                          !.calculation_relationships = r.rels],
        error |-> r.error, raised |-> r.raised]

\* the loop over the candidate files of one step, then the next step
TaxStep(step, files, next, c) ==
    /\ elements' = c.st.elements
    /\ labels' = c.st.labels
    /\ references' = c.st.references
    /\ presentation_relationships' = c.st.presentation_relationships
    /\ calculation_relationships' = c.st.calculation_relationships
    /\ fetched' = c.fetched
    /\ raised' = c.raised
    /\ last' = Call("parse_taxonomy", c.parsed, c.error)
    /\ out' = None
    /\ UNCHANGED database
    /\ IF c.raised THEN pc' = "raised" /\ idx' = idx
       ELSE IF idx < files THEN pc' = step /\ idx' = idx + 1
       ELSE pc' = next /\ idx' = 1

\* a run that starts with the label files
TaxBeginAtLabel ==
    /\ FirstCall
    /\ pc = "idle"
    /\ pc' = "label"
    /\ idx' = 1
    /\ last' = Call("parse_taxonomy", NoContent, NoExc)
    /\ UNCHANGED <<parser, raised, out, fetched, database>>

TaxBegin ==
    /\ FirstCall
    /\ pc = "idle"
    /\ pc' = "schema"
    /\ idx' = 1
    /\ last' = Call("parse_taxonomy", NoContent, NoExc)
    /\ UNCHANGED <<parser, raised, out, fetched, database>>

TaxSchema(response) ==
    /\ pc = "schema"
    /\ \E d \in {download_file(response)} :
       \E c \in {Candidate(d, SchemaStep(ParserState, d.value))} :
           TaxStep("schema", 1, "label", c)

TaxLabel(response) ==
    /\ pc = "label"
    /\ \E d \in {download_file(response)} :
       \E c \in {Candidate(d, LabelStep(ParserState, d.value))} :
           TaxStep("label", NumLabelFiles, "reference", c)

TaxReference(response) ==
    /\ pc = "reference"
    /\ \E d \in {download_file(response)} :
       \E c \in {Candidate(d, ReferenceStep(ParserState, d.value))} :
           TaxStep("reference", NumRefFiles, "presentation", c)

TaxPresentation(response) ==
    /\ pc = "presentation"
    /\ \E d \in {download_file(response)} :
       \E c \in {Candidate(d, PresentationStep(ParserState, d.value))} :
           TaxStep("presentation", NumPresFiles, "calculation", c)

TaxCalculation(response) ==
    /\ pc = "calculation"
    /\ \E d \in {download_file(response)} :
       \E c \in {Candidate(d, CalculationStep(ParserState, d.value))} :
           TaxStep("calculation", NumCalcFiles, "classify", c)

TaxClassify ==
    /\ pc = "classify"
    /\ \E classified \in {classify_all_elements(elements)} :
           elements' = classified
    /\ pc' = "done"
    /\ last' = Call("parse_taxonomy", NoContent, NoExc)
    /\ UNCHANGED <<labels, references, presentation_relationships,
                   calculation_relationships, raised, out, idx, fetched,
                   database>>

NextTaxonomy ==
    \/ TaxBegin
    \/ \E response \in Responses(TaxSchemaDocs) : TaxSchema(response)
    \/ \E response \in Responses(TaxLabelDocs) : TaxLabel(response)
    \/ \E response \in Responses(TaxReferenceDocs) : TaxReference(response)
    \/ \E response \in Responses(TaxPresDocs) : TaxPresentation(response)
    \/ \E response \in Responses(TaxCalcDocs) : TaxCalculation(response)
    \/ TaxClassify

\* parse_taxonomy is straight-line code: a step that can run does run
SpecTaxonomy == Init /\ [][NextTaxonomy]_vars /\ WF_vars(NextTaxonomy)

----------------------------------------------------------------------------
(* populate_gaap_elements.py and etl_sec_enhanced.py *)

MaxRows == 3       \* rows of the table statements

\* `row[c] if row[c] else None`
OrNone(text) == IF text = "" THEN None ELSE text

GaapRow(row) ==
    [standard_label |-> OrNone(row.standard_label),
     documentation |-> OrNone(row.documentation),
     financial_statement |-> OrNone(row.financial_statement)]

\* INSERT ... ON CONFLICT (element_name) DO UPDATE, for each row of the csv
RECURSIVE InsertGaapElements(_, _, _)
InsertGaapElements(table, csv, i) ==
    IF i > Len(csv) THEN table
    ELSE InsertGaapElements(Put(table, csv[i].element_name, GaapRow(csv[i])),
                            csv, i + 1)

\* DELETE FROM gaap_elements, then the rows of the csv
populate_gaap_elements(csv) == InsertGaapElements(EmptyDict, csv, 1)

\* a lookup that takes a row without standard_label for a missing row
get_gaap_element_info_labelled(table, tag) ==
    IF Has(table, tag) /\ Get(table, tag).standard_label # None
    THEN Get(table, tag)
    ELSE [standard_label |-> None, documentation |-> None,
          financial_statement |-> None]

\* SELECT ... WHERE element_name = tag; fetchone() is a row or None
get_gaap_element_info(table, tag) ==
    IF Has(table, tag) THEN Get(table, tag)
    ELSE [standard_label |-> None, documentation |-> None,
          financial_statement |-> None]

\* the rows that conflict on (company_id, tag, start_date, end_date); a NULL
\* conflicts with nothing
Conflicts(rows, company_id, tag, fact) ==
    {i \in DOMAIN rows :
        /\ fact.start # None
        /\ fact.end # None
        /\ rows[i].company_id = company_id
        /\ rows[i].tag = tag
        /\ rows[i].start_date = fact.start
        /\ rows[i].end_date = fact.end}

\* INSERT INTO statements ... ON CONFLICT ... DO UPDATE SET value and the
\* three fields of the element
insert_statement_enhanced(rows, company_id, tag, unit, fact, info) ==
    LET hit == Conflicts(rows, company_id, tag, fact)
    IN IF hit # {}
       THEN LET i == CHOOSE i \in hit : TRUE
            IN [rows EXCEPT ![i] =
                   [@ EXCEPT !.value = fact.val,
                             !.standard_label = info.standard_label,
                             !.documentation = info.documentation,
                             !.financial_statement = info.financial_statement]]
       ELSE Append(rows,
                   [company_id |-> company_id, tag |-> tag, unit |-> unit,
                    value |-> fact.val, start_date |-> fact.start,
                    end_date |-> fact.end,
                    standard_label |-> info.standard_label,
                    documentation |-> info.documentation,
                    financial_statement |-> info.financial_statement])

\* for fact in fact_list
RECURSIVE StoreFacts(_, _, _, _, _, _, _)
StoreFacts(rows, company_id, tag, unit, fact_list, info, i) ==
    IF i > Len(fact_list) THEN rows
    ELSE StoreFacts(insert_statement_enhanced(rows, company_id, tag, unit,
                                              fact_list[i], info),
                    company_id, tag, unit, fact_list, info, i + 1)

\* for unit, fact_list in tag_data.get("units", {}).items()
RECURSIVE StoreUnits(_, _, _, _, _, _)
StoreUnits(rows, company_id, tag, units, info, i) ==
    IF i > Len(units) THEN rows
    ELSE StoreUnits(StoreFacts(rows, company_id, tag, units[i].unit,
                               units[i].facts, info, 1),
                    company_id, tag, units, info, i + 1)

\* for tag, tag_data in facts.items(): one lookup for the tag, then its facts
RECURSIVE StoreTags(_, _, _, _, _)
StoreTags(rows, table, company_id, facts, i) ==
    IF i > Len(facts) THEN rows
    ELSE StoreTags(StoreUnits(rows, company_id, facts[i].tag, facts[i].units,
                              get_gaap_element_info(table, facts[i].tag), 1),
                   table, company_id, facts, i + 1)

\* nothing is stored unless the status is 200
fetch_and_store_enhanced(rows, table, cik, resp) ==
    IF resp.status_code # 200 THEN rows
    ELSE StoreTags(rows, table, cik, resp.facts, 1)

\* the rows of a csv file, an empty text for an empty cell
CsvRow(name, label, doc, statement) ==
    [element_name |-> name, standard_label |-> label, documentation |-> doc,
     financial_statement |-> statement]

GaapCsvs ==
    {<< >>,
     <<CsvRow("Assets", "Assets", "Sum of assets", FinancialPosition)>>,
     <<CsvRow("Assets", "", "Sum of assets", ""),
       CsvRow("Revenues", "Revenues", "", Income)>>}

\* the company facts of one response: tags, their units, their facts
Fact(val, start, end) == [val |-> val, start |-> start, end |-> end]

Units(unit, fact_list) == [unit |-> unit, facts |-> fact_list]

TagData(tag, units) == [tag |-> tag, units |-> units]

CompanyFacts(status_code, facts) ==
    [status_code |-> status_code, facts |-> facts]

\* an instant has no start; the two Revenues facts are of the same period
Responses200 ==
    {CompanyFacts(200, << >>),
     CompanyFacts(200, <<TagData("Assets",
         <<Units("USD", <<Fact(1, None, "2023-12-31")>>)>>)>>),
     CompanyFacts(200, <<TagData("Revenues",
         <<Units("USD", <<Fact(2, "2023-01-01", "2023-12-31"),
                          Fact(3, "2023-01-01", "2023-12-31")>>)>>), 
                         TagData("Goodwill",
         <<Units("USD", <<Fact(4, None, "2023-12-31")>>)>>)>>),
     CompanyFacts(200, <<TagData("Assets",
         <<Units("USD", <<Fact(5, "2023-01-01", "2023-12-31")>>),
           Units("EUR", <<Fact(6, "2023-01-01", "2023-12-31")>>)>>)>>)}

CompanyFactsResponses ==
    {CompanyFacts(404, <<TagData("Assets",
         <<Units("USD", <<Fact(1, None, "2023-12-31")>>)>>)>>)}
    \cup Responses200

Cik == "0001652044"

PopulateGaapElements(csv) ==
    /\ gaap_elements' = populate_gaap_elements(csv)
    /\ raised' = FALSE
    /\ last' = Call("populate_gaap_elements", NoContent, NoExc)
    /\ out' = None
    /\ UNCHANGED <<parser, taxonomy, statements>>

FetchAndStoreEnhanced(cik, resp) ==
    LET rows == fetch_and_store_enhanced(statements, gaap_elements, cik, resp)
    IN /\ Len(rows) <= MaxRows
       /\ statements' = rows
       /\ raised' = FALSE
       /\ last' = Call("fetch_and_store_enhanced", resp, NoExc)
       /\ out' = None
       /\ UNCHANGED <<parser, taxonomy, gaap_elements>>

\* the element table is filled before facts are loaded, and may be filled
\* again between two loads
NextEtl ==
    \/ \E csv \in GaapCsvs : PopulateGaapElements(csv)
    \/ \E resp \in CompanyFactsResponses :
           ~FirstCall /\ FetchAndStoreEnhanced(Cik, resp)

SpecEtl == Init /\ [][NextEtl]_vars

----------------------------------------------------------------------------
(* Properties of the hierarchy builder *)

Names == {"A", "B", "C"}

Known == KeySet(elements)

Elem(name) == Get(elements, name)

Parents(name) == {Elem(name).parent_elements[i] :
                      i \in DOMAIN Elem(name).parent_elements}

Children(name) == {Elem(name).child_elements[i] :
                       i \in DOMAIN Elem(name).child_elements}

Level(name) == calculate_element_level(elements, name, {})

\* C1: for every known element A and every name B, B is in A.child_elements
\* if and only if B is a known element whose parent_elements contains A.
C1_Symmetry ==
    \A a \in Known : \A b \in Names \cup Known :
        (b \in Children(a)) <=> (b \in Known /\ a \in Parents(b))

\* the names reachable from a name through parent_elements
RECURSIVE AncestorsWithin(_, _)
AncestorsWithin(S, n) ==
    IF n = 0 THEN S
    ELSE AncestorsWithin(
             S \cup UNION {Parents(x) : x \in S \cap Known}, n - 1)

Ancestors(name) ==
    IF name \in Known
    THEN AncestorsWithin(Parents(name), Cardinality(Names \cup Known))
    ELSE {}

\* no parent cycle can be reached from the element
AcyclicAbove(name) ==
    \A x \in {name} \cup Ancestors(name) : x \notin Ancestors(x)

LevelRecurrence(e) ==
    Level(e) = IF Parents(e) = {} THEN 0
               ELSE 1 + SetMax({Level(p) : p \in Parents(e)})

C4_CycleGuard ==
    \A n \in Names \cup Known :
        /\ level_stack(elements, n, {}) <= Cardinality(Known) + 1
        /\ statement_stack(elements, n, {}) <= Cardinality(Known) + 1
        /\ Level(n) \in 0..Cardinality(Known)
        /\ find_top_level_statement(elements, n, {}) \in Statements \cup {Unknown}
        /\ \A visited \in SUBSET (Names \cup Known) :
               n \in visited =>
                   /\ calculate_element_level(elements, n, visited) = 0
                   /\ find_top_level_statement(elements, n, visited) = Unknown

\* the levels of a graph with a cycle have been exported
C4_Witness ==
    /\ last.op = "build_hierarchy_dataframe"
    /\ \E n \in Known :
           /\ n \in Ancestors(n)
           /\ Cardinality(Parents(n)) > 1
           /\ \E i \in DOMAIN out : out[i].child_element = n /\ out[i].level > 0

\* the one-document case of C6: what the arcs of a document resolve to
ArcPairs(content) ==
    LET h2e == href_to_element(content)
    IN [i \in DOMAIN content.arcs |->
            IF Has(h2e, content.arcs[i].from) /\ Has(h2e, content.arcs[i].to)
            THEN <<Get(h2e, content.arcs[i].from), Get(h2e, content.arcs[i].to)>>
            ELSE << >>]

ResolvesToKnown(content) ==
    \A i \in DOMAIN content.arcs :
        /\ ArcPairs(content)[i] # << >>
        /\ ArcPairs(content)[i][1] \in Known
        /\ ArcPairs(content)[i][2] \in Known

NumericOrders(content) ==
    \A i \in DOMAIN content.arcs : Float(Attr(content.arcs[i].order, "0")).ok

Count(seq, x) == Cardinality({i \in DOMAIN seq : seq[i] = x})

RowPairs(rows) ==
    [i \in DOMAIN rows |-> <<rows[i].parent_element, rows[i].child_element>>]

\* the parser has its schema and no hierarchy yet
FreshHierarchy ==
    /\ last.op = "parse_schema_file"
    /\ presentation_relationships = EmptyDict

HierarchyIs(pairs) ==
    /\ \A e \in Known :
           /\ Children(e) = {pairs[i][2] : i \in {j \in DOMAIN pairs : pairs[j][1] = e}}
           /\ Parents(e) = {pairs[i][1] : i \in {j \in DOMAIN pairs : pairs[j][2] = e}}
    /\ LET rows == RowPairs(build_hierarchy_dataframe(
                                elements, presentation_relationships))
       IN /\ Len(rows) = Len(pairs)
          /\ \A i \in DOMAIN pairs : Count(rows, pairs[i]) = Count(pairs, pairs[i])

OneDocument(content) ==
    /\ content # Malformed
    /\ ResolvesToKnown(content)
    /\ ParsePresentation(content)

\* C6 as stated: after one presentation document whose arcs all resolve to
\* pre-registered elements, child_elements and parent_elements are exactly
\* the arc targets and sources and the hierarchy export has one row per arc.
C6_OneDocumentAnyOrder ==
    [][FreshHierarchy =>
           \A content \in PresDocs :
               OneDocument(content) => HierarchyIs(ArcPairs(content))']_vars

\* C6 amended: the same, for a document whose arcs all carry a numeric order.
C6_OneDocument ==
    [][FreshHierarchy =>
           \A content \in PresDocs :
               OneDocument(content) /\ NumericOrders(content)
                   => HierarchyIs(ArcPairs(content))']_vars

\* the arcs A -> B (order 1) and A -> C (order 2) have been parsed and exported
C6_Witness ==
    /\ last.op = "build_hierarchy_dataframe"
    /\ Known = {"A", "B", "C"}
    /\ Elem("A").child_elements = <<"B", "C">>
    /\ Elem("B").parent_elements = <<"A">>
    /\ Elem("C").parent_elements = <<"A">>
    /\ Len(out) = 2
    /\ \A i \in DOMAIN out : out[i].parent_element = "A"
    /\ out[1].child_element = "B" /\ out[1].order = 10
    /\ out[2].child_element = "C" /\ out[2].order = 20

----------------------------------------------------------------------------
(* Properties of the label resolver *)

\* the from-locator of the arc is the label of no loc of the document
Dangling(content, arc) ==
    \A i \in DOMAIN content.locs : content.locs[i].label # arc.from

RECURSIVE Resolving(_, _)
Resolving(content, arcs) ==
    IF arcs = << >> THEN << >>
    ELSE IF Dangling(content, Head(arcs)) THEN Resolving(content, Tail(arcs))
    ELSE <<Head(arcs)>> \o Resolving(content, Tail(arcs))

WithoutDangling(content) ==
    [content EXCEPT !.arcs = Resolving(content, content.arcs)]

HasDangling(content) ==
    \E i \in DOMAIN content.arcs : Dangling(content, content.arcs[i])

\* C7: a label arc whose from-locator matches no loc does not raise and
\* leaves the labels of every element as they are without that arc.
C7_DanglingLabelArc ==
    [][( /\ last'.op = "parse_label_linkbase"
         /\ last'.arg # Malformed
         /\ HasDangling(last'.arg) )
           => /\ ~raised'
              /\ last'.error = NoExc
              /\ elements' = parse_label_linkbase(
                                 elements, labels,
                                 WithoutDangling(last'.arg)).elements]_vars

\* a document with a dangling arc and a resolving arc has been parsed: the
\* resolving arc attached its label
C7_Witness ==
    /\ last.op = "parse_label_linkbase"
    /\ last.arg # Malformed
    /\ HasDangling(last.arg)
    /\ last.arg.arcs[1].from = "l9"
    /\ Len(last.arg.arcs) = 2
    /\ "A" \in Known
    /\ Has(labels, "lab1")
    /\ Elem("A").labels # EmptyDict

----------------------------------------------------------------------------
(* Properties of the exporter *)

RECURSIVE ExpectedFormula(_)
ExpectedFormula(children) ==
    IF children = << >> THEN ""
    ELSE LET term == (IF Head(children).weight < 0 THEN "-" ELSE "+")
                     \o " " \o Head(children).element
         IN IF Len(children) = 1 THEN term
            ELSE term \o " " \o ExpectedFormula(Tail(children))

Recorded(name) == Elem(name).calculation_children

\* C8: the exported calculation_formula lists the calculation children in
\* recorded order, "+" for a weight >= 0 and "-" for a negative one, joined
\* by single spaces; [X 1.0, Y -1.0] gives "+ X - Y", no children gives "".
C8_CalculationFormula ==
    last.op = "to_comprehensive_dataframe" =>
        \A i \in DOMAIN out :
            LET recorded == Recorded(out[i].element_name)
            IN /\ out[i].calculation_formula = ExpectedFormula(recorded)
               /\ out[i].calculation_children_count = Len(recorded)
               /\ recorded = << >> => out[i].calculation_formula = ""
               /\ ( /\ Len(recorded) = 2
                    /\ recorded[1].element = "X" /\ recorded[1].weight = 10
                    /\ recorded[2].element = "Y" /\ recorded[2].weight = -10 )
                  => out[i].calculation_formula = "+ X - Y"

\* the formula "+ X - Y" has been exported for children of weight 1.0, -1.0
C8_Witness ==
    /\ last.op = "to_comprehensive_dataframe"
    /\ \E i \in DOMAIN out :
           /\ out[i].calculation_formula = "+ X - Y"
           /\ Recorded(out[i].element_name)[1].weight = 10
           /\ Recorded(out[i].element_name)[2].weight = -10

----------------------------------------------------------------------------
(* Properties of the classifier *)

Statement(name) == Elem(name).financial_statement

\* the element set of C2: the one element, with no labels and no parents
OnlyCash ==
    /\ last.op = "classify_all_elements"
    /\ Known = {CashName}
    /\ Elem(CashName).labels = EmptyDict
    /\ Elem(CashName).parent_elements = << >>

\* C2 as stated: classify_all_elements sets the financial_statement of the
\* single element CashAndCashEquivalentsAtCarryingValue to "Statement of
\* Financial Position" by the name-pattern match.
C2_CashIsFinancialPosition ==
    OnlyCash => Statement(CashName) = FinancialPosition

\* C2 amended: no pattern is a substring of the name, and the element, having
\* no labels and no parents, is classified "Unknown".
C2_CashIsUnknown ==
    OnlyCash => name_match(CashName) = Unknown /\ Statement(CashName) = Unknown

C2_Witness == OnlyCash /\ Statement(CashName) # None

\* C5: running classify_all_elements again leaves every financial_statement
\* as the first run set it.
C5_ClassifyIdempotent ==
    [][(last.op = "classify_all_elements" /\ last'.op = "classify_all_elements")
           => elements' = elements]_vars

\* a classified element set in which an element has its statement from a
\* parent, and which a further run leaves as it is
C5_Witness ==
    /\ last.op = "classify_all_elements"
    /\ \E e \in Known :
           /\ name_match(e) = Unknown
           /\ label_match(Values(Elem(e).labels)) = Unknown
           /\ Statement(e) \in Statements
    /\ classify_all_elements(elements) = elements

----------------------------------------------------------------------------
(* Properties of parse_taxonomy *)

RequestErrors == {ConnectionError, Timeout, HTTPError}

\* C9: download_file never lets an exception out: whatever the request does,
\* it returns the content of the response or None.
C9_DownloadNeverRaises ==
    last.op = "parse_taxonomy" =>
        /\ ~raised
        /\ pc # "raised"
        /\ last.error \in RequestErrors => fetched = NoContent
        /\ fetched.kind \in {"None", "empty", "malformed", "xml"}

\* a request timed out, None was returned and parse_taxonomy went on
C9_Witness ==
    /\ last.op = "parse_taxonomy"
    /\ last.error = Timeout
    /\ fetched = NoContent
    /\ pc = "presentation"
    /\ ~raised

AllClassified == \A e \in Known : Statement(e) # None

\* C10: whatever each download and each parse does, parse_taxonomy ends
\* without raising, having classified every known element.
C10_TaxonomyCompletes == <>(pc = "done" /\ ~raised /\ AllClassified)

\* parse_taxonomy is done: the schema gave elements, the presentation
\* documents gave nothing, a calculation document was parsed
C10_Witness ==
    /\ pc = "done"
    /\ Known # {}
    /\ AllClassified
    /\ presentation_relationships = EmptyDict
    /\ calculation_relationships # EmptyDict

----------------------------------------------------------------------------
(* Properties of a parser driven method by method *)

\* the outcome r of a parse that was stopped by ParseError: the exception is
\* caught and the element map is the one the parse started with
StoppedUnharmed(r) ==
    r.error = ParseError /\ ~r.raised /\ r.elements = elements

\* C11: in every state of the parser, each of the five parse operations, given
\* bytes that are not well-formed XML, returns without raising and leaves the
\* element map exactly as it was.
C11_MalformedLeavesElements ==
    /\ StoppedUnharmed(parse_schema_file(elements, Malformed))
    /\ StoppedUnharmed(parse_label_linkbase(elements, labels, Malformed))
    /\ StoppedUnharmed(parse_reference_linkbase(elements, references,
                                                Malformed))
    /\ StoppedUnharmed(parse_presentation_linkbase(
           elements, presentation_relationships, Malformed))
    /\ StoppedUnharmed(parse_calculation_linkbase(
           elements, calculation_relationships, Malformed))

\* a parse was stopped by ParseError on a parser whose element A has a label,
\* a reference, a child and a calculation child
C11_Witness ==
    /\ last.error = ParseError
    /\ Has(elements, "A")
    /\ Get(elements, "A").labels # EmptyDict
    /\ Get(elements, "A").references # << >>
    /\ Get(elements, "A").child_elements # << >>
    /\ Get(elements, "A").calculation_children # << >>

----------------------------------------------------------------------------
(* Properties of parse_taxonomy: the order of its steps *)

StepOrder ==
    <<"idle", "schema", "label", "reference", "presentation", "calculation",
      "classify", "done">>

Position(step) == CHOOSE i \in DOMAIN StepOrder : StepOrder[i] = step

\* the step gave an element another financial_statement
Reclassified ==
    \E i \in DOMAIN elements :
        /\ Has(elements', elements[i].k)
        /\ Get(elements', elements[i].k).financial_statement
               # elements[i].v.financial_statement

\* C12: every step of parse_taxonomy stays in its phase, moving to the next
\* candidate of the same type, or goes on to the next phase of the order
\* schema, label, reference, presentation, calculation, classify; a phase
\* touches only what belongs to it (names are added in the schema phase only,
\* labels in the label phase only, and so on), and the classification runs
\* only after the last calculation candidate.
C12_FixedOrder ==
    [][/\ Position(pc') \in {Position(pc), Position(pc) + 1}
       /\ Position(pc') = Position(pc) => idx' = idx + 1
       /\ KeySet(elements') # KeySet(elements) => pc = "schema"
       /\ labels' # labels => pc = "label"
       /\ references' # references => pc = "reference"
       /\ presentation_relationships' # presentation_relationships
              => pc = "presentation"
       /\ calculation_relationships' # calculation_relationships
              => pc = "calculation"
       /\ Reclassified => pc = "classify"
       /\ pc' = "classify" => pc = "calculation" /\ idx = NumCalcFiles
      ]_vars

\* a run went through every phase: it has labels, references, both kinds of
\* edges and classified elements
C12_Witness ==
    /\ pc = "done"
    /\ labels # EmptyDict
    /\ references # EmptyDict
    /\ presentation_relationships # EmptyDict
    /\ calculation_relationships # EmptyDict
    /\ \E i \in DOMAIN elements : elements[i].v.financial_statement # None

----------------------------------------------------------------------------
(* Properties of parse_taxonomy: its candidate files *)

CandidatePhases ==
    {"schema", "label", "reference", "presentation", "calculation"}

Files(step) ==
    CASE step = "schema" -> 1
      [] step = "label" -> NumLabelFiles
      [] step = "reference" -> NumRefFiles
      [] step = "presentation" -> NumPresFiles
      [] step = "calculation" -> NumCalcFiles

\* the candidate after candidate idx of a phase: the next file of the phase
\* or, after its last file, the first one of the next phase
NextCandidate(step, i) ==
    IF i < Files(step) THEN <<step, i + 1>>
    ELSE <<StepOrder[Position(step) + 1], 1>>

\* a step of a candidate phase requests one file; the step handed the
\* response body to a parser
Parsed == last'.arg.kind # "None"

\* C13 as stated: every candidate is requested once, whatever the outcome
\* (the run goes on to the next candidate after a failure and after a
\* success alike), and a candidate is parsed if and only if download_file
\* returned the response content rather than None.
C13_ParsedIffContent ==
    [][(pc \in CandidatePhases) =>
           /\ <<pc', idx'>> = NextCandidate(pc, idx)
           /\ Parsed <=> fetched'.kind # "None"
      ]_vars

\* C13: every candidate is requested once, whatever the outcome, and a
\* candidate is parsed if and only if download_file returned content that is
\* not empty: neither None nor the empty bytes of a 200 response without body.
C13_ParsedIffNonEmptyContent ==
    [][(pc \in CandidatePhases) =>
           /\ <<pc', idx'>> = NextCandidate(pc, idx)
           /\ Parsed <=> fetched'.kind \notin {"None", "empty"}
      ]_vars

\* the third label candidate came with a document, which was parsed, and the
\* run went on to the fourth candidate
C13_Witness ==
    /\ pc = "label"
    /\ idx = 4
    /\ last.op = "parse_taxonomy"
    /\ last.arg.kind = "xml"
    /\ labels # EmptyDict

----------------------------------------------------------------------------
(* Properties of the element map *)

\* C14: no step of a parser removes a name from the element map, and a step
\* that adds a name is a step of parse_schema_file.
C14_NamesOnlyGrow ==
    [][/\ KeySet(elements) \subseteq KeySet(elements')
       /\ KeySet(elements') # KeySet(elements)
              => last'.op = "parse_schema_file"
      ]_vars

\* the schema was parsed after a label document, and A, B and C are the names
\* of the map
C14_Witness ==
    /\ last.op = "parse_schema_file"
    /\ last.error = NoExc
    /\ labels # EmptyDict
    /\ KeySet(elements) = {"A", "B", "C"}

----------------------------------------------------------------------------
(* Properties of the fact loader *)

\* every fact of a response, with its tag
FactsOf(resp) ==
    UNION {UNION {{<<resp.facts[t].tag, resp.facts[t].units[u].facts[f]>> :
                      f \in DOMAIN resp.facts[t].units[u].facts} :
                  u \in DOMAIN resp.facts[t].units} :
           t \in DOMAIN resp.facts}

\* the rows of the table for a fact: those of its company, tag and period
RowsFor(rows, tag, fact) ==
    {i \in DOMAIN rows :
        /\ rows[i].company_id = Cik
        /\ rows[i].tag = tag
        /\ rows[i].start_date = fact.start
        /\ rows[i].end_date = fact.end}

\* the row carries the three fields of the element of its tag, or three nulls
\* when the element table has no row for the tag
EnrichedFrom(row, table) ==
    IF \E i \in DOMAIN table : table[i].k = row.tag
    THEN \E i \in DOMAIN table :
             /\ table[i].k = row.tag
             /\ row.standard_label = table[i].v.standard_label
             /\ row.documentation = table[i].v.documentation
             /\ row.financial_statement = table[i].v.financial_statement
    ELSE /\ row.standard_label = None
         /\ row.documentation = None
         /\ row.financial_statement = None

\* C15: after a run of fetch_and_store_enhanced on a 200 response, every fact
\* of the response has a row in the table statements, and the row written last
\* for it carries the standard_label, documentation and financial_statement of
\* the gaap_elements row of its tag, or three nulls when the tag has no row.
C15_FactsEnriched ==
    [][(last'.op = "fetch_and_store_enhanced" /\ last'.arg.status_code = 200)
       => \A tf \in FactsOf(last'.arg) :
              LET stored == RowsFor(statements', tf[1], tf[2])
              IN /\ stored # {}
                 /\ EnrichedFrom(statements'[SetMax(stored)], gaap_elements)
      ]_vars

\* the table holds a row of Assets, an element without standard_label but with
\* a documentation, and a row of Goodwill, a tag that is no element
C15_Witness ==
    /\ last.op = "fetch_and_store_enhanced"
    /\ \E i \in DOMAIN statements :
           /\ statements[i].tag = "Assets"
           /\ statements[i].standard_label = None
           /\ statements[i].documentation = "Sum of assets"
    /\ \E i \in DOMAIN statements :
           /\ statements[i].tag = "Goodwill"
           /\ statements[i].documentation = None
    /\ \E i \in DOMAIN statements :
           /\ statements[i].tag = "Revenues"
           /\ statements[i].financial_statement = Income
           /\ statements[i].value = 3

----------------------------------------------------------------------------
(* Properties of the recorded hierarchy *)

\* C16: every (parent, child) pair of presentation_relationships has both
\* ends in the element map, and so has every row of the hierarchy export.
C16_EdgesBetweenKnown ==
    /\ \A i \in DOMAIN presentation_relationships :
           /\ presentation_relationships[i].k \in Known
           /\ \A j \in DOMAIN presentation_relationships[i].v :
                  presentation_relationships[i].v[j].child \in Known
    /\ last.op = "build_hierarchy_dataframe"
           => \A j \in DOMAIN out :
                  /\ out[j].parent_element \in Known
                  /\ out[j].child_element \in Known

----------------------------------------------------------------------------
(* Properties of the enrichment of elements *)

Entries(list) == {list[i] : i \in DOMAIN list}

\* every entry of the list before is an entry of the list after
KeepsEntries(before, after) ==
    Entries(before) \subseteq Entries(after) /\ Len(before) <= Len(after)

\* C17: no step of a parser takes an entry away from an element: the label
\* kinds, the references, parent_elements, child_elements and
\* calculation_children it had before the step it still has after it.
C17_MonotoneEnrichment ==
    [][\A i \in DOMAIN elements :
           LET name == elements[i].k
               before == elements[i].v
           IN /\ Has(elements', name)
              /\ LET after == Get(elements', name)
                 IN /\ KeySet(before.labels) \subseteq KeySet(after.labels)
                    /\ KeepsEntries(before.references, after.references)
                    /\ KeepsEntries(before.parent_elements,
                                    after.parent_elements)
                    /\ KeepsEntries(before.child_elements,
                                    after.child_elements)
                    /\ KeepsEntries(before.calculation_children,
                                    after.calculation_children)
      ]_vars

----------------------------------------------------------------------------
(* Properties of a presentation parse that stops, and of repeated arcs *)

EdgeRecorded(a, b) ==
    \E i \in DOMAIN presentation_relationships :
        /\ presentation_relationships[i].k = a
        /\ \E j \in DOMAIN presentation_relationships[i].v :
               presentation_relationships[i].v[j].child = b

\* of an arc from a to b, the edge record, the entry of b in the
\* child_elements of a and the entry of a in the parent_elements of b are
\* all there or all missing
AllOrNothing(a, b) ==
    LET down == a \in Known /\ b \in Children(a)
        up == b \in Known /\ a \in Parents(b)
    IN \/ EdgeRecorded(a, b) /\ down /\ up
       \/ ~EdgeRecorded(a, b) /\ ~down /\ ~up

NoArcHalfApplied == \A a \in Names : \A b \in Names : AllOrNothing(a, b)

\* C18: after a presentation parse that was stopped by an arc whose order is
\* not a number, no arc is half-applied: for every pair of names the edge
\* record, the parent's child_elements entry and the child's parent_elements
\* entry are all present or all absent.
C18_NoHalfAppliedArc ==
    [][(last'.op = "parse_presentation_linkbase" /\ last'.error = ValueError)
       => NoArcHalfApplied']_vars

Distinct(list) ==
    \A i \in DOMAIN list : \A j \in DOMAIN list : list[i] = list[j] => i = j

\* C19: no element's parent_elements or child_elements holds a name twice.
C19_NoDuplicates ==
    \A i \in DOMAIN elements :
        /\ Distinct(elements[i].v.parent_elements)
        /\ Distinct(elements[i].v.child_elements)

\* the arc from A to B was recorded twice, and B is once in the child_elements
\* of A and A once in the parent_elements of B
C19_Witness ==
    /\ \E i \in DOMAIN presentation_relationships :
           /\ presentation_relationships[i].k = "A"
           /\ \E j, k \in DOMAIN presentation_relationships[i].v :
                  /\ j # k
                  /\ presentation_relationships[i].v[j].child = "B"
                  /\ presentation_relationships[i].v[k].child = "B"
    /\ Has(elements, "A") /\ Has(elements, "B")
    /\ Children("A") = {"B"}
    /\ Parents("B") = {"A"}

----------------------------------------------------------------------------
(* Properties of the label records *)

\* C20: a label document is resolved against the label records of that
\* document alone: the elements after parse_label_linkbase are those of a
\* parse that starts without any label record of an earlier document.
C20_LabelsPerDocument ==
    [][(last'.op = "parse_label_linkbase")
       => elements' = parse_label_linkbase(elements, EmptyDict,
                                           last'.arg).elements]_vars

----------------------------------------------------------------------------
(* Properties of the label nodes *)

\* the tests on the role, in their order
KindOrder ==
    <<[sub |-> "terseLabel", kind |-> "terse"],
      [sub |-> "verboseLabel", kind |-> "verbose"],
      [sub |-> "documentation", kind |-> "documentation"],
      [sub |-> "totalLabel", kind |-> "total"],
      [sub |-> "negatedLabel", kind |-> "negated"]>>

\* the kind of the first test of KindOrder that the role passes
KindOf(role) ==
    LET hits == {i \in DOMAIN KindOrder : Contains(KindOrder[i].sub, role)}
    IN IF hits = {} THEN "standard"
       ELSE KindOrder[CHOOSE i \in hits : \A j \in hits : i <= j].kind

\* the label nodes of a document that are collected
Collected(content) ==
    {n \in DOMAIN content.labels :
        /\ content.labels[n].text # None
        /\ content.labels[n].text # ""
        /\ Attr(content.labels[n].label, "") # ""}

\* C21: the label record of a collected label node has the kind of the first
\* of the tests terseLabel, verboseLabel, documentation, totalLabel,
\* negatedLabel that its role passes (a case-sensitive substring test), and
\* the kind "standard" when it passes none.
C21_KindByFirstMatch ==
    [][(last'.op = "parse_label_linkbase" /\ last'.arg.kind = "xml")
       => \A n \in Collected(last'.arg) :
              LET node == last'.arg.labels[n]
              IN Get(labels', node.label).type = KindOf(Attr(node.role, ""))
      ]_vars

\* the role of the last label node has totalLabel before terseLabel, and the
\* element A got its text as terse label and has no total label
C21_Witness ==
    /\ last.op = "parse_label_linkbase"
    /\ last.arg.kind = "xml"
    /\ last.arg.labels[1].role = "http://x/role/totalLabel-terseLabel"
    /\ Has(elements, "A")
    /\ Has(Get(elements, "A").labels, "terse")
    /\ ~Has(Get(elements, "A").labels, "total")

\* C22: no record of the label map and no label of an element has a text
\* that is empty after trimming; a label node of blanks leaves no record.
C22_NoEmptyLabelText ==
    /\ \A i \in DOMAIN labels : Strip(labels[i].v.text) # ""
    /\ \A i \in DOMAIN elements :
           \A j \in DOMAIN elements[i].v.labels :
               Strip(elements[i].v.labels[j].v) # ""

\* the text of an href after its first '#', the whole href without one
RECURSIVE AfterFirstHashFrom(_, _)
AfterFirstHashFrom(href, i) ==
    IF i > Len(href) THEN href
    ELSE IF SubSeq(href, i, i) = "#" THEN SubSeq(href, i + 1, Len(href))
    ELSE AfterFirstHashFrom(href, i + 1)

AfterFirstHash(href) == AfterFirstHashFrom(href, 1)

\* C23: the element that a label parse gives a label to is named by the text
\* after the first '#' of the href of one of the document's locs.
C23_NameAfterFirstHash ==
    [][(last'.op = "parse_label_linkbase" /\ last'.arg.kind = "xml")
       => \A name \in KeySet(elements) :
              (/\ Has(elements', name)
               /\ Get(elements', name).labels # Get(elements, name).labels)
              => \E l \in DOMAIN last'.arg.locs :
                     AfterFirstHash(last'.arg.locs[l].href) = name
      ]_vars

----------------------------------------------------------------------------
(* Properties of the classifier on curated documents *)

\* the keyword sets in their priority order
NameOrder == <<FinancialPosition, Income, CashFlows, StockholdersEquity>>

\* the keywords of a statement
Keywords(statement) ==
    LET i == CHOOSE j \in DOMAIN statement_patterns :
                 statement_patterns[j].k = statement
    IN {statement_patterns[i].v[j] : j \in DOMAIN statement_patterns[i].v}

\* the positions in NameOrder of the statements with a keyword that is a
\* case-insensitive substring of the name
NameHits(name) ==
    LET name_lower == CHOOSE l \in {Lower(name)} : TRUE
    IN {i \in DOMAIN NameOrder :
           \E keyword \in Keywords(NameOrder[i]) :
               Contains(Lower(keyword), name_lower)}

First(S) == CHOOSE i \in S : \A j \in S : i <= j

\* C24: after classify_all_elements an element whose name contains, without
\* regard to case, a keyword of some statement has the first such statement
\* in the order Financial Position, Income, Cash Flows, Stockholders Equity,
\* whatever its labels and its parents are.
C24_NamePriority ==
    last.op = "classify_all_elements"
    => \A name \in Known :
           \A hits \in {NameHits(name)} :
               hits # {} => Statement(name) = NameOrder[First(hits)]

\* CashFlowNetIncome has keywords of Income and of Cash Flows, a label and a
\* parent of Financial Position, and is classified Income
C24_Witness ==
    /\ last.op = "classify_all_elements"
    /\ Has(elements, "CashFlowNetIncome")
    /\ NameHits("CashFlowNetIncome") = {2, 3}
    /\ Values(Elem("CashFlowNetIncome").labels) = <<"Total assets">>
    /\ Elem("CashFlowNetIncome").parent_elements = <<"Assets">>
    /\ Statement("CashFlowNetIncome") = Income

\* the term categories of the label scan in the order of their tests
TermOrder ==
    <<[statement |-> CashFlows,
       terms |-> {"cash flow", "operating activities", "investing activities",
                  "financing activities"}],
      [statement |-> Income,
       terms |-> {"income", "revenue", "expense", "earnings", "profit",
                  "loss"}],
      [statement |-> FinancialPosition,
       terms |-> {"balance sheet", "financial position", "assets",
                  "liabilities", "equity"}],
      [statement |-> StockholdersEquity,
       terms |-> {"stockholders equity", "changes in equity"}]>>

\* the positions in TermOrder of the categories with a term in the text
TermHits(text) ==
    LET text_lower == CHOOSE l \in {Lower(text)} : TRUE
    IN {i \in DOMAIN TermOrder :
           \E term \in TermOrder[i].terms : Contains(term, text_lower)}

\* the labels of an element, in the order in which it got them, that contain
\* a term of some category
HittingLabels(name) ==
    {i \in DOMAIN Elem(name).labels : TermHits(Elem(name).labels[i].v) # {}}

Unmatched(name) == NameHits(name) = {} /\ HittingLabels(name) = {}

\* the stored statement of the first parent, in list order, whose stored
\* statement is not Unknown
FirstClassifiedParent(name) ==
    LET parents == Elem(name).parent_elements
        hits == {i \in DOMAIN parents :
                    /\ parents[i] \in Known
                    /\ Statement(parents[i]) # Unknown}
    IN IF hits = {} THEN Unknown ELSE Statement(parents[First(hits)])

\* C27 as stated: after classify_all_elements, on every parent graph, cycles
\* included, an element with neither a name match nor a label match has the
\* financial_statement of its first parent whose own financial_statement is
\* not Unknown, and Unknown without such a parent.
C27_FirstParentAnyGraph ==
    last.op = "classify_all_elements"
    => \A name \in Known :
           Unmatched(name) => Statement(name) = FirstClassifiedParent(name)

\* C27, amended: the same for the elements that lie on no parent cycle.
C27_FirstParentOffCycles ==
    last.op = "classify_all_elements"
    => \A name \in Known :
           (Unmatched(name) /\ name \notin Ancestors(name))
           => Statement(name) = FirstClassifiedParent(name)

\* Other is on no cycle; its parent Goodwill has its statement from its own
\* parent Revenues, and Other has it from Goodwill
C27_Witness ==
    /\ last.op = "classify_all_elements"
    /\ Has(elements, "Other")
    /\ Unmatched("Other")
    /\ Unmatched("Goodwill")
    /\ "Other" \notin Ancestors("Other")
    /\ Elem("Other").parent_elements = <<"Goodwill">>
    /\ Elem("Goodwill").parent_elements = <<"Revenues">>
    /\ Statement("Other") = Income

\* C28: after classify_all_elements on an element map that holds an element
\* named by every keyword of Stockholders Equity (and elements named by
\* keywords of the other three statements), each of the four statements is
\* the financial_statement of some element, and every financial_statement is
\* one of the four statements or Unknown.
C28_EachStatementAttained ==
    (/\ last.op = "classify_all_elements"
     /\ \A i \in DOMAIN EquityNames : EquityNames[i] \in Known)
    => /\ \A statement \in Statements :
              \E name \in Known : Statement(name) = statement
       /\ \A name \in Known : Statement(name) \in Statements \cup {Unknown}

----------------------------------------------------------------------------
(* Properties of the exports and of the merge of documents *)

Exports == {"to_comprehensive_dataframe", "build_hierarchy_dataframe"}

\* C26: a call of to_comprehensive_dataframe or of build_hierarchy_dataframe
\* (which calls calculate_element_level for every row) leaves the element
\* map, presentation_relationships and calculation_relationships as they
\* were, also when an edge names an element that is not known.
C26_ExportsReadOnly ==
    [][(last'.op \in Exports)
       => /\ elements' = elements
          /\ presentation_relationships' = presentation_relationships
          /\ calculation_relationships' = calculation_relationships
      ]_vars

\* the hierarchy was exported with a row whose child is not a known element
C26_Witness ==
    /\ last.op = "build_hierarchy_dataframe"
    /\ out # None
    /\ \E i \in DOMAIN out :
           /\ out[i].parent_element \in Known
           /\ out[i].child_element \notin Known
           /\ ~Has(presentation_relationships, out[i].child_element)

\* the child names recorded under a parent in presentation_relationships
RecordedChildren(parent) ==
    IF Has(presentation_relationships, parent)
    THEN {Get(presentation_relationships, parent)[i].child :
              i \in DOMAIN Get(presentation_relationships, parent)}
    ELSE {}

\* C29: for a parser given its schema and then presentation documents, the
\* names in the child_elements of every known element are the child names
\* recorded under it in presentation_relationships.
C29_ChildrenAgree == \A name \in Known : Children(name) = RecordedChildren(name)

\* A has the one child B, which is not a known element and which is recorded
\* twice under A
C29_Witness ==
    /\ last.op = "parse_presentation_linkbase"
    /\ Has(elements, "A")
    /\ "B" \notin Known
    /\ Elem("A").child_elements = <<"B">>
    /\ Has(presentation_relationships, "A")
    /\ Len(Get(presentation_relationships, "A")) = 2
    /\ RecordedChildren("A") = {"B"}

\* the classified element map of the parser after two more label documents
AfterLabelDocs(first, second) ==
    LET r1 == parse_label_linkbase(elements, labels, first)
        r2 == parse_label_linkbase(r1.elements, r1.labels, second)
    IN classify_all_elements(r2.elements)

\* the same after two more presentation documents
AfterPresDocs(first, second) ==
    LET r1 == parse_presentation_linkbase(elements,
                                          presentation_relationships, first)
        r2 == parse_presentation_linkbase(r1.elements, r1.rels, second)
    IN classify_all_elements(r2.elements)

ItemsOf(list) == {list[i] : i \in DOMAIN list}

\* two element maps give every element the same labels, the same parent and
\* child sets and the same financial_statement
SameOutcome(elems1, elems2) ==
    /\ KeySet(elems1) = KeySet(elems2)
    /\ \A name \in KeySet(elems1) :
           LET e1 == Get(elems1, name)
               e2 == Get(elems2, name)
           IN /\ ItemsOf(e1.labels) = ItemsOf(e2.labels)
              /\ ItemsOf(e1.parent_elements) = ItemsOf(e2.parent_elements)
              /\ ItemsOf(e1.child_elements) = ItemsOf(e2.child_elements)
              /\ e1.financial_statement = e2.financial_statement

MergedLabels(first, second) ==
    LET r1 == parse_label_linkbase(elements, labels, first)
    IN parse_label_linkbase(r1.elements, r1.labels, second).elements

MergedHierarchy(first, second) ==
    LET r1 == parse_presentation_linkbase(elements,
                                          presentation_relationships, first)
    IN parse_presentation_linkbase(r1.elements, r1.rels, second).elements

====
